---- MODULE Spec2Model ----
(***************************************************************************)
(* Air Canvas: the gesture-to-geometry pipeline.                           *)
(*                                                                         *)
(*   useHandTracking (hooks/usehandtracking.ts)                            *)
(*       LightSmoother, isFingerExtended, processResults,                  *)
(*       startTracking, processFrame, stopTracking                         *)
(*   DrawingCanvas   (src/components/drawing-canvas.tsx)                   *)
(*       addPoint, endStroke, clear, getStrokes                            *)
(*   App             (src/App.tsx)                                         *)
(*       handleDrawingPoint, handleDrawingEnd, handleClear                 *)
(*   ThreeScene      (src/components/three-scene.tsx)                      *)
(*       chaikinSmooth, downsample, ClayTube                               *)
(*                                                                         *)
(* Numbers.  JavaScript numbers are modelled as exact rationals.  A pixel  *)
(* coordinate p is held as the integer p * Scale, where Scale is a power   *)
(* of the smoothing factor's denominator large enough that every division  *)
(* the smoother performs within the bounds of a run is exact.  A landmark  *)
(* coordinate c in [0,1] is held as the integer c * LmDen.                 *)
(***************************************************************************)
EXTENDS Integers, Sequences, FiniteSets, TLC

VARIABLES
    lastPoint,          \* LightSmoother.lastPoint: Null or a Point
    prevDrawingState,   \* prevDrawingState.current
    state,              \* the hook's React state (HandTrackingState)
    dc,                 \* DrawingCanvas refs: strokesRef, currentStrokeRef,
                        \*   lastPointRef, previousPointRef
    strokes,            \* App's strokes state (handed to ThreeScene)
    results,            \* the input of the last call (frame, point or pose)
    fired,              \* callbacks fired / value returned by the last call
    call,               \* name of the last operation executed
    runPoints,          \* history: onDrawingPoint calls since the last onDrawingEnd
    runAccepted,        \* history: points addPoint appended since the last onDrawingEnd
    runTrace,           \* history: the points onDrawingPoint delivered since the
                        \*   last onDrawingEnd, in order
    runClears,          \* history: handleClear calls since the Drawing run began
    ends,               \* history: onDrawingEnd calls so far
    handSinceEnd,       \* history: hand-present frames since the last onDrawingEnd
    nOps,               \* history: number of operations executed on the pipeline
    session,            \* the hook's session refs (handsRef, animationFrameRef,
                        \*   streamRef), the video element, and every
                        \*   startTracking call's position and isProcessing flag
    scene               \* what React holds of the rendered scene: the App's
                        \*   canvasSize, the identity of each stroke array, each
                        \*   mounted ClayTube's props and geometry memo deps,
                        \*   and how often each geometry memo has run

vars == <<lastPoint, prevDrawingState, state, dc, strokes, results, fired, call,
          runPoints, runAccepted, runTrace, runClears, ends, handSinceEnd, nOps,
          session, scene>>

hookVars == <<lastPoint, prevDrawingState, state>>
histVars == <<runPoints, runAccepted, runTrace, runClears, ends, handSinceEnd>>

(***************************************************************************)
(* Bounds of the model.                                                    *)
(***************************************************************************)
MaxFrames == 4      \* frames and clear actions in a pipeline run
MaxCalls == 4       \* calls on a LightSmoother taken alone
MaxRecOps == 7      \* calls on a DrawingCanvas handle taken alone
MaxClassify == 2    \* frames in a run of the gesture classifier's poses
MaxSessions == 2    \* startTracking calls on one hook
MaxSessFrames == 2  \* frames delivered to processResults across the sessions
MaxLoopFrames == 1  \* frames delivered while the frame loops are followed

(***************************************************************************)
(* Program constants.                                                      *)
(***************************************************************************)
FactorNum == 4              \* new LightSmoother(0.8): 0.8 = 4/5
FactorDen == 5
MIN_DISTANCE_SQ == 4        \* drawing-canvas.tsx
CanvasW == 640              \* canvas.width  (the video's width when unset)
CanvasH == 480              \* canvas.height
LmDen == 3 * CanvasW        \* landmark coordinates are multiples of 1/LmDen

RECURSIVE Pow(_, _)
Pow(b, e) == IF e = 0 THEN 1 ELSE b * Pow(b, e - 1)

Max(a, b) == IF a >= b THEN a ELSE b

\* One pixel, in the fixed-point unit of the model.
Scale == Pow(FactorDen, Max(MaxFrames, MaxCalls))

Null == [null |-> TRUE]

Pt(px, py) == [x |-> px * Scale, y |-> py * Scale]

(***************************************************************************)
(* LightSmoother                                                           *)
(***************************************************************************)
\* A variant of smoothAxis with the constructor's default factor, 0.6.
smoothAxisDefaultFactor(last, v) == last + ((v - last) * 3) \div 5

\* A variant of smoothAxis that moves from the new value towards the old one.
smoothAxisSwapped(last, v) == v + ((last - v) * FactorNum) \div FactorDen

\* One axis of the exponential smoothing: last + (v - last) * factor.
smoothAxis(last, v) == last + ((v - last) * FactorNum) \div FactorDen

\* A variant of smooth that takes the origin for a missing lastPoint.
smoothFromOrigin(lp, point) ==
    LET from == IF lp = Null THEN [x |-> 0, y |-> 0] ELSE lp
        smoothed == [x |-> smoothAxis(from.x, point.x),
                     y |-> smoothAxis(from.y, point.y)]
    IN  [ret |-> smoothed, lastPoint |-> smoothed]

\* smooth(point): the value returned and the lastPoint stored.
smooth(lp, point) ==
    IF lp = Null
    THEN [ret |-> point, lastPoint |-> point]
    ELSE LET smoothed == [x |-> smoothAxis(lp.x, point.x),
                          y |-> smoothAxis(lp.y, point.y)]
         IN  [ret |-> smoothed, lastPoint |-> smoothed]

\* reset(): the lastPoint stored.
reset == Null

(***************************************************************************)
(* Gesture classification                                                  *)
(***************************************************************************)
\* A variant of isFingerExtended that compares with <=.
isFingerExtendedNonStrict(landmarks, tipIdx, pipIdx, mcpIdx) ==
    /\ landmarks[tipIdx].y <= landmarks[pipIdx].y
    /\ landmarks[pipIdx].y <= landmarks[mcpIdx].y

isFingerExtended(landmarks, tipIdx, pipIdx, mcpIdx) ==
    /\ landmarks[tipIdx].y < landmarks[pipIdx].y
    /\ landmarks[pipIdx].y < landmarks[mcpIdx].y

\* A variant of isDrawingNow that does not look at the pinky.
isDrawingNowNoPinky(landmarks) ==
    /\ isFingerExtended(landmarks, 8, 6, 5)
    /\ ~isFingerExtended(landmarks, 12, 10, 9)
    /\ ~isFingerExtended(landmarks, 16, 14, 13)

isDrawingNow(landmarks) ==
    LET indexExtended == isFingerExtended(landmarks, 8, 6, 5)
        middleExtended == isFingerExtended(landmarks, 12, 10, 9)
        ringExtended == isFingerExtended(landmarks, 16, 14, 13)
        pinkyExtended == isFingerExtended(landmarks, 20, 18, 17)
    IN  indexExtended /\ ~middleExtended /\ ~ringExtended /\ ~pinkyExtended

\* rawPoint: landmark 8 scaled into canvas pixel space.
rawPoint(landmarks, w, h) ==
    [x |-> (landmarks[8].x * w * Scale) \div LmDen,
     y |-> (landmarks[8].y * h * Scale) \div LmDen]

(***************************************************************************)
(* DrawingCanvas handle                                                    *)
(***************************************************************************)
EmptyCanvas ==
    [strokesRef |-> <<>>, currentStrokeRef |-> <<>>,
     lastPointRef |-> Null, previousPointRef |-> Null]

\* Skip if too close: dx * dx + dy * dy < MIN_DISTANCE_SQ.
\* A variant of tooClose that rejects only a point at the last point itself.
tooCloseSamePoint(lastP, point) == point = lastP

tooCloseInclusive(lastP, point) ==
    LET dx == point.x - lastP.x
        dy == point.y - lastP.y
    IN  dx * dx + dy * dy <= MIN_DISTANCE_SQ * Scale * Scale

tooClose(lastP, point) ==
    LET dx == point.x - lastP.x
        dy == point.y - lastP.y
    IN  dx * dx + dy * dy < MIN_DISTANCE_SQ * Scale * Scale

\* A variant of addPoint whose first-point branch does not set lastPointRef.
addPointNoSeed(c, point) ==
    IF c.lastPointRef = Null
    THEN [c EXCEPT !.currentStrokeRef = Append(@, point),
                   !.previousPointRef = Null]
    ELSE IF tooClose(c.lastPointRef, point)
         THEN c
         ELSE [c EXCEPT !.currentStrokeRef = Append(@, point),
                        !.previousPointRef = c.lastPointRef,
                        !.lastPointRef = point]

\* A variant of addPoint whose first-point branch seeds lastPointRef without
\* storing the point.
addPointDropsFirst(c, point) ==
    IF c.lastPointRef = Null
    THEN [c EXCEPT !.lastPointRef = point,
                   !.previousPointRef = Null]
    ELSE IF tooClose(c.lastPointRef, point)
         THEN c
         ELSE [c EXCEPT !.currentStrokeRef = Append(@, point),
                        !.previousPointRef = c.lastPointRef,
                        !.lastPointRef = point]

\* A variant of addPoint whose first point of a stroke is also pushed onto the
\* stroke committed last, as if the in-progress array were still that one.
addPointIntoCommitted(c, point) ==
    IF c.lastPointRef = Null
    THEN [c EXCEPT !.currentStrokeRef = Append(@, point),
                   !.lastPointRef = point,
                   !.previousPointRef = Null,
                   !.strokesRef = IF Len(@) > 0
                                  THEN [@ EXCEPT ![Len(@)] = Append(@, point)]
                                  ELSE @]
    ELSE IF tooClose(c.lastPointRef, point)
         THEN c
         ELSE [c EXCEPT !.currentStrokeRef = Append(@, point),
                        !.previousPointRef = c.lastPointRef,
                        !.lastPointRef = point]

addPoint(c, point) ==
    IF c.lastPointRef = Null
    THEN [c EXCEPT !.currentStrokeRef = Append(@, point),
                   !.lastPointRef = point,
                   !.previousPointRef = Null]
    ELSE IF tooClose(c.lastPointRef, point)
         THEN c
         ELSE [c EXCEPT !.currentStrokeRef = Append(@, point),
                        !.previousPointRef = c.lastPointRef,
                        !.lastPointRef = point]

\* A variant of endStroke that leaves lastPointRef as it was.
endStrokeKeepsLast(c) ==
    [strokesRef |-> IF Len(c.currentStrokeRef) > 1
                    THEN Append(c.strokesRef, c.currentStrokeRef)
                    ELSE c.strokesRef,
     currentStrokeRef |-> <<>>,
     lastPointRef |-> c.lastPointRef,
     previousPointRef |-> Null]

\* A variant of endStroke that keeps a stroke of a single point.
endStrokeKeepsSingle(c) ==
    [strokesRef |-> IF Len(c.currentStrokeRef) > 0
                    THEN Append(c.strokesRef, c.currentStrokeRef)
                    ELSE c.strokesRef,
     currentStrokeRef |-> <<>>,
     lastPointRef |-> Null,
     previousPointRef |-> Null]

endStroke(c) ==
    [strokesRef |-> IF Len(c.currentStrokeRef) > 1
                    THEN Append(c.strokesRef, c.currentStrokeRef)
                    ELSE c.strokesRef,
     currentStrokeRef |-> <<>>,
     lastPointRef |-> Null,
     previousPointRef |-> Null]

\* A variant of clear that leaves lastPointRef as it was.
clearKeepsLast(c) == [EmptyCanvas EXCEPT !.lastPointRef = c.lastPointRef]

clear(c) == EmptyCanvas

getStrokes(c) == c.strokesRef

(***************************************************************************)
(* App callbacks                                                           *)
(***************************************************************************)
handleDrawingPoint(c, point) == addPoint(c, point)

\* A variant of handleDrawingEnd that commits the in-progress stroke itself,
\* whatever its length.
handleDrawingEndCommitsAny(c, appStrokes) ==
    [dc |-> clear(c), strokes |-> Append(appStrokes, c.currentStrokeRef)]

\* A variant of handleDrawingEnd that clears the recorder before it reads
\* getStrokes().
handleDrawingEndClearsFirst(c, appStrokes) ==
    LET cleared == clear(endStroke(c))
        newStrokes == getStrokes(cleared)
    IN  [dc |-> cleared,
         strokes |-> IF Len(newStrokes) > 0
                     THEN appStrokes \o newStrokes
                     ELSE appStrokes]

\* A variant of handleDrawingEnd that leaves the recorder's completed strokes
\* in place after the hand-off.
handleDrawingEndKeepsRecorder(c, appStrokes) ==
    LET ended == endStroke(c)
        newStrokes == getStrokes(ended)
    IN  [dc |-> ended,
         strokes |-> IF Len(newStrokes) > 0
                     THEN appStrokes \o newStrokes
                     ELSE appStrokes]

\* A variant of handleDrawingEnd that puts the new strokes in front of the
\* App's strokes.
handleDrawingEndPrepends(c, appStrokes) ==
    LET ended == endStroke(c)
        newStrokes == getStrokes(ended)
    IN  [dc |-> clear(ended),
         strokes |-> IF Len(newStrokes) > 0
                     THEN newStrokes \o appStrokes
                     ELSE appStrokes]

\* endStroke, then append getStrokes() to the App's strokes, then clear.
handleDrawingEnd(c, appStrokes) ==
    LET ended == endStroke(c)
        newStrokes == getStrokes(ended)
    IN  [dc |-> clear(ended),
         strokes |-> IF Len(newStrokes) > 0
                     THEN appStrokes \o newStrokes
                     ELSE appStrokes]

(***************************************************************************)
(* processResults                                                          *)
(*                                                                         *)
(* In the pipeline the overlay canvas is present with a 2d context and     *)
(* the size CanvasW x CanvasH, so the early returns of lines 91-112 are    *)
(* not taken; they are modelled by processResultsGuard further down.       *)
(* The skeleton painted on the overlay is not state of the pipeline.       *)
(***************************************************************************)
Event(e, p) == [ev |-> e, point |-> p]

\* The pipeline state a frame reads and writes.
Cur ==
    [lastPoint |-> lastPoint, prevDrawingState |-> prevDrawingState,
     state |-> state, dc |-> dc, strokes |-> strokes]

\* A variant of endsStroke that looks at the level, not the edge.
endsStrokeLevel(prev, now) == ~now

\* else if (prevDrawingState.current && !isDrawingNow)
endsStroke(prev, now) == prev /\ ~now

\* A variant of afterFrame that never resets.
afterFrameNoReset(ending, lp) == lp

\* The smoother after the frame: reset() on the frame that ends a stroke.
afterFrame(ending, lp) == IF ending THEN reset ELSE lp

\* The branch taken when results.multiHandLandmarks holds a hand.
onHand(s, landmarks) ==
    LET now == isDrawingNow(landmarks)
        sm == smooth(s.lastPoint, rawPoint(landmarks, CanvasW, CanvasH))
        point == sm.ret
        ending == ~now /\ endsStroke(s.prevDrawingState, now)
        ended == handleDrawingEnd(s.dc, s.strokes)
    IN  [lastPoint |-> afterFrame(ending, sm.lastPoint),
         prevDrawingState |-> now,
         state |-> IF s.state.isDrawing # now \/ ~s.state.handDetected
                   THEN [isTracking |-> TRUE, indexFingerTip |-> point,
                         isDrawing |-> now, handDetected |-> TRUE]
                   ELSE s.state,
         dc |-> IF now THEN handleDrawingPoint(s.dc, point)
                ELSE IF ending THEN ended.dc ELSE s.dc,
         strokes |-> IF ending THEN ended.strokes ELSE s.strokes,
         fired |-> IF now THEN <<Event("onDrawingPoint", point)>>
                   ELSE IF ending THEN <<Event("onDrawingEnd", Null)>>
                   ELSE <<>>]

\* A variant of onNoHand that leaves prevDrawingState.current set.
onNoHandKeepsFlag(s) ==
    LET ending == s.prevDrawingState
        ended == handleDrawingEnd(s.dc, s.strokes)
    IN  [lastPoint |-> afterFrame(ending, s.lastPoint),
         prevDrawingState |-> s.prevDrawingState,
         state |-> IF s.state.handDetected \/ s.state.isDrawing
                   THEN [isTracking |-> TRUE, indexFingerTip |-> Null,
                         isDrawing |-> FALSE, handDetected |-> FALSE]
                   ELSE s.state,
         dc |-> IF ending THEN ended.dc ELSE s.dc,
         strokes |-> IF ending THEN ended.strokes ELSE s.strokes,
         fired |-> IF ending THEN <<Event("onDrawingEnd", Null)>> ELSE <<>>]

\* A variant of onNoHand that ends the stroke without resetting the smoother.
onNoHandNoReset(s) ==
    LET ending == s.prevDrawingState
        ended == handleDrawingEnd(s.dc, s.strokes)
    IN  [lastPoint |-> s.lastPoint,
         prevDrawingState |-> IF ending THEN FALSE ELSE s.prevDrawingState,
         state |-> IF s.state.handDetected \/ s.state.isDrawing
                   THEN [isTracking |-> TRUE, indexFingerTip |-> Null,
                         isDrawing |-> FALSE, handDetected |-> FALSE]
                   ELSE s.state,
         dc |-> IF ending THEN ended.dc ELSE s.dc,
         strokes |-> IF ending THEN ended.strokes ELSE s.strokes,
         fired |-> IF ending THEN <<Event("onDrawingEnd", Null)>> ELSE <<>>]

\* A variant of onNoHand that ends the stroke without handing it to the App.
onNoHandDropsStroke(s) ==
    LET ending == s.prevDrawingState
    IN  [lastPoint |-> afterFrame(ending, s.lastPoint),
         prevDrawingState |-> IF ending THEN FALSE ELSE s.prevDrawingState,
         state |-> IF s.state.handDetected \/ s.state.isDrawing
                   THEN [isTracking |-> TRUE, indexFingerTip |-> Null,
                         isDrawing |-> FALSE, handDetected |-> FALSE]
                   ELSE s.state,
         dc |-> IF ending THEN clear(s.dc) ELSE s.dc,
         strokes |-> s.strokes,
         fired |-> IF ending THEN <<Event("onDrawingEnd", Null)>> ELSE <<>>]

\* A variant of onNoHand that resets the smoother on every frame.
onNoHandAlwaysResets(s) ==
    LET ending == s.prevDrawingState
        ended == handleDrawingEnd(s.dc, s.strokes)
    IN  [lastPoint |-> reset,
         prevDrawingState |-> IF ending THEN FALSE ELSE s.prevDrawingState,
         state |-> IF s.state.handDetected \/ s.state.isDrawing
                   THEN [isTracking |-> TRUE, indexFingerTip |-> Null,
                         isDrawing |-> FALSE, handDetected |-> FALSE]
                   ELSE s.state,
         dc |-> IF ending THEN ended.dc ELSE s.dc,
         strokes |-> IF ending THEN ended.strokes ELSE s.strokes,
         fired |-> IF ending THEN <<Event("onDrawingEnd", Null)>> ELSE <<>>]

\* The branch taken when no hand is in the frame.
onNoHand(s) ==
    LET ending == s.prevDrawingState
        ended == handleDrawingEnd(s.dc, s.strokes)
    IN  [lastPoint |-> afterFrame(ending, s.lastPoint),
         prevDrawingState |-> IF ending THEN FALSE ELSE s.prevDrawingState,
         state |-> IF s.state.handDetected \/ s.state.isDrawing
                   THEN [isTracking |-> TRUE, indexFingerTip |-> Null,
                         isDrawing |-> FALSE, handDetected |-> FALSE]
                   ELSE s.state,
         dc |-> IF ending THEN ended.dc ELSE s.dc,
         strokes |-> IF ending THEN ended.strokes ELSE s.strokes,
         fired |-> IF ending THEN <<Event("onDrawingEnd", Null)>> ELSE <<>>]

processResults(s, res) ==
    IF Len(res.multiHandLandmarks) > 0
    THEN onHand(s, res.multiHandLandmarks[1])
    ELSE onNoHand(s)

(***************************************************************************)
(* Frames the Landmark Source delivers.                                    *)
(***************************************************************************)
Fingers == {"index", "middle", "ring", "pinky"}

Mcp(f) == CASE f = "index" -> 5 [] f = "middle" -> 9 [] f = "ring" -> 13 [] OTHER -> 17
Pip(f) == Mcp(f) + 1
Dip(f) == Mcp(f) + 2
Tip(f) == Mcp(f) + 3

FingerOf(i) == CHOOSE f \in Fingers : i \in Mcp(f)..Tip(f)

\* Ways a finger is held; only "ext" has tip above PIP above MCP.
Shapes == {"ext", "tieTipPip", "tiePipMcp", "curl"}

\* Vertical distance between two joints of a finger, in 1/LmDen.
JointGap == LmDen \div 96

PipOff(sh) == CASE sh = "ext" -> JointGap [] sh = "tieTipPip" -> 0
                [] sh = "tiePipMcp" -> JointGap [] OTHER -> 0 - JointGap
McpOff(sh) == CASE sh = "ext" -> 2 * JointGap [] sh = "tieTipPip" -> JointGap
                [] sh = "tiePipMcp" -> JointGap [] OTHER -> JointGap

\* Tip height of middle, ring and pinky, in 1/LmDen.
OtherTipY == 3 * JointGap

\* A hand whose finger f is held in shape pose[f], with the index tip at
\* (tx, ty) in 1/LmDen.  v moves what the classifier must not read: the wrist,
\* the thumb, every x but the index tip's, and every z.
HandPose(pose, tx, ty, v) ==
    [i \in 0..20 |->
        IF i <= 4
        THEN [x |-> 100 + 10 * i + 7 * v, y |-> 300 - 30 * i - 90 * v, z |-> v]
        ELSE LET f == FingerOf(i)
                 t == IF f = "index" THEN ty ELSE OtherTipY
             IN  [x |-> IF i = 8 THEN tx ELSE 10 * i + 7 * v,
                  y |-> IF i = Tip(f) \/ i = Dip(f) THEN t
                        ELSE IF i = Pip(f) THEN t + PipOff(pose[f])
                        ELSE t + McpOff(pose[f]),
                  z |-> 0 - v]]

HandFrame(pose, tx, ty, v) == [multiHandLandmarks |-> <<HandPose(pose, tx, ty, v)>>]

NoHand == [multiHandLandmarks |-> <<>>]

\* Gestures of the pipeline runs: index only, and an open hand.
Pointing == [f \in Fingers |-> IF f = "index" THEN "ext" ELSE "curl"]
OpenHand == [f \in Fingers |-> "ext"]

\* Index tip positions: x in {0, 1, 3} px, y in {10, 12} px.
TipXs == {0, 3, 9}
TipYs == {40, 48}

PointingFrames == {HandFrame(Pointing, tx, ty, 0) : tx \in TipXs, ty \in TipYs}
OpenHandFrames == {HandFrame(OpenHand, tx, ty, 0) : tx \in TipXs, ty \in TipYs}

Frames == {NoHand} \cup PointingFrames \cup OpenHandFrames

(***************************************************************************)
(* The pipeline: frames and clear actions, in any order.                   *)
(***************************************************************************)
Sessions == 1..MaxSessions

\* No startTracking call yet: every ref null, no stream on the video.  A ref
\* holds 0 for null, else the number of the startTracking call whose Hands
\* instance, stream or latest requestAnimationFrame id it holds.  History:
\* stopped (stopTracking has been called since the last startTracking call
\* began), afterStop[s] (a stopTracking came between the call before s and
\* call s), restarted (the call that last armed a frame loop began after a
\* stopTracking), sinceStart (frames processed since a loop was last armed).
\* The overlay canvas is mounted at the App's canvasSize, its 2d context not
\* yet cached; the video has no size before a stream plays.
InitSession ==
    [pc |-> [s \in Sessions |-> "idle"],
     isProcessing |-> [s \in Sessions |-> FALSE],
     handsRef |-> 0,
     animationFrameRef |-> 0,
     streamRef |-> 0,
     srcObject |-> 0,
     videoReady |-> FALSE,
     stopped |-> FALSE,
     afterStop |-> [s \in Sessions |-> FALSE],
     restarted |-> FALSE,
     sinceStart |-> 0,
     canvas |-> [mounted |-> TRUE, ctxRef |-> FALSE, contextAvailable |-> TRUE,
                 width |-> CanvasW, height |-> CanvasH],
     videoSized |-> FALSE]

InitState ==
    [isTracking |-> FALSE, indexFingerTip |-> Null,
     isDrawing |-> FALSE, handDetected |-> FALSE]

(***************************************************************************)
(* The rendered scene (App.tsx canvasSize and strokes state; three-scene   *)
(* ClayTube memo and geometry useMemo).                                    *)
(*                                                                         *)
(* React compares props and memo deps by identity, so each stroke array    *)
(* carries an id given when setStrokes first receives it.  scaleX =        *)
(* 5 / canvasWidth, scaleY = 4 / canvasHeight and zOffset = index * 0.5    *)
(* are one-to-one in the width, height and index, and are held as those.   *)
(* A render follows every state update at once.  A re-render of the App    *)
(* with the same strokes and canvasSize leaves the scene as it is.         *)
(***************************************************************************)
EmptyScene ==
    [canvasSize |-> [width |-> CanvasW, height |-> CanvasH],
     ids |-> <<>>, nextId |-> 0, tubes |-> <<>>, builds |-> <<>>]

\* <ClayTube key={index} stroke index canvasWidth canvasHeight />
tubeProps(ids, k, size) ==
    [stroke |-> ids[k], index |-> k - 1,
     canvasWidth |-> size.width, canvasHeight |-> size.height]

\* A variant of geometryDeps without the scale factors.
geometryDepsNoScale(props) ==
    [stroke |-> props.stroke, scaleX |-> 0, scaleY |-> 0, zOffset |-> props.index]

\* The deps of the geometry memo: [stroke, scaleX, scaleY, zOffset].
geometryDeps(props) ==
    [stroke |-> props.stroke, scaleX |-> props.canvasWidth,
     scaleY |-> props.canvasHeight, zOffset |-> props.index]

\* One render of ThreeScene over the strokes with identities ids: a ClayTube
\* is rendered when it is new at its key or its props changed, and its
\* geometry memo runs when it is new or its deps changed; the ClayTubes
\* past the end of the list are unmounted.
commit(sc, ids, size) ==
    LET old == sc.tubes
        props(k) == tubeProps(ids, k, size)
        mounted(k) == k <= Len(old)
        rendered(k) == ~mounted(k) \/ old[k].props # props(k)
        rebuilt(k) == ~mounted(k) \/ (rendered(k) /\ old[k].deps # geometryDeps(props(k)))
        keys == Max(Len(sc.builds), Len(ids))
    IN  [canvasSize |-> size,
         ids |-> ids,
         nextId |-> sc.nextId,
         tubes |-> [k \in 1..Len(ids) |->
                       IF rendered(k)
                       THEN [props |-> props(k),
                             deps |-> IF rebuilt(k) THEN geometryDeps(props(k))
                                      ELSE old[k].deps]
                       ELSE old[k]],
         builds |-> [k \in 1..keys |->
                        (IF k <= Len(sc.builds) THEN sc.builds[k] ELSE 0)
                        + (IF k <= Len(ids) /\ rebuilt(k) THEN 1 ELSE 0)]]

\* setStrokes((prevStrokes) => [...prevStrokes, ...newStrokes]) with count new
\* stroke arrays, and the render that follows; none when count is 0.
setStrokesAppended(sc, count) ==
    IF count = 0
    THEN sc
    ELSE commit([sc EXCEPT !.nextId = @ + count],
                sc.ids \o [i \in 1..count |-> sc.nextId + i - 1],
                sc.canvasSize)

\* setStrokes([]) and the render that follows.
setStrokesEmpty(sc) == commit(sc, <<>>, sc.canvasSize)

Init ==
    /\ lastPoint = Null
    /\ prevDrawingState = FALSE
    /\ state = InitState
    /\ dc = EmptyCanvas
    /\ strokes = <<>>
    /\ results = NoHand
    /\ fired = <<>>
    /\ call = "init"
    /\ runPoints = 0
    /\ runAccepted = 0
    /\ runTrace = <<>>
    /\ runClears = 0
    /\ ends = 0
    /\ handSinceEnd = 0
    /\ nOps = 0
    /\ session = InitSession
    /\ scene = EmptyScene

Fired(next, e) == \E i \in 1..Len(next.fired) : next.fired[i].ev = e

\* hands.onResults(processResults): one frame, processed to the end.
ProcessResults(res) ==
    LET next == processResults(Cur, res)
    IN  /\ lastPoint' = next.lastPoint
        /\ prevDrawingState' = next.prevDrawingState
        /\ state' = next.state
        /\ dc' = next.dc
        /\ strokes' = next.strokes
        /\ fired' = next.fired
        /\ results' = res
        /\ call' = "processResults"
        /\ runPoints' = IF Fired(next, "onDrawingEnd") THEN 0
                        ELSE IF Fired(next, "onDrawingPoint") THEN runPoints + 1
                        ELSE runPoints
        /\ runAccepted' = IF Fired(next, "onDrawingEnd") THEN 0
                          ELSE IF Len(next.dc.currentStrokeRef) > Len(dc.currentStrokeRef)
                               THEN runAccepted + 1
                          ELSE runAccepted
        /\ runTrace' = IF Fired(next, "onDrawingEnd") THEN <<>>
                       ELSE IF Fired(next, "onDrawingPoint")
                            THEN Append(runTrace, next.fired[1].point)
                       ELSE runTrace
        /\ runClears' = IF Fired(next, "onDrawingEnd") \/ ~prevDrawingState
                        THEN 0 ELSE runClears
        /\ ends' = IF Fired(next, "onDrawingEnd") THEN ends + 1 ELSE ends
        /\ handSinceEnd' = IF Fired(next, "onDrawingEnd") THEN 0
                           ELSE IF Len(res.multiHandLandmarks) > 0
                                THEN handSinceEnd + 1
                           ELSE handSinceEnd
        /\ nOps' = nOps + 1
        /\ scene' = setStrokesAppended(scene, Len(next.strokes) - Len(strokes))

\* The trash button: handleClear.
HandleClear ==
    /\ dc' = clear(dc)
    /\ strokes' = <<>>
    /\ fired' = <<>>
    /\ call' = "handleClear"
    /\ runClears' = runClears + 1
    /\ nOps' = nOps + 1
    /\ scene' = setStrokesEmpty(scene)
    /\ UNCHANGED <<hookVars, results, runPoints, runAccepted, runTrace, ends, handSinceEnd,
                   session>>

Frame == \E res \in Frames : nOps < MaxFrames /\ ProcessResults(res) /\ UNCHANGED session

Clear == nOps < MaxFrames /\ HandleClear

Next == Frame \/ Clear

Spec == Init /\ [][Next]_vars

(***************************************************************************)
(* The gesture classifier over hand poses: the 16 extended/curled          *)
(* combinations, and the index-only pose with one finger held at a tie,    *)
(* each with the unread coordinates at two settings.                       *)
(***************************************************************************)
ClassPoses ==
    [Fingers -> {"ext", "curl"}]
        \cup {[Pointing EXCEPT ![f] = sh] : f \in Fingers, sh \in {"tieTipPip", "tiePipMcp"}}

ClassFrame(pose, v) == HandFrame(pose, 9 * v, 40, v)

\* The frame of every pose and setting, tabulated.
ClassFrameOf == [pose \in ClassPoses, v \in {0, 1} |-> ClassFrame(pose, v)]

ClassFrames == {NoHand} \cup {ClassFrameOf[pose, v] : pose \in ClassPoses, v \in {0, 1}}

ClassifyFrame ==
    \E res \in ClassFrames : nOps < MaxClassify /\ ProcessResults(res) /\ UNCHANGED session

NextClassifier == ClassifyFrame

SpecClassifier == Init /\ [][NextClassifier]_vars

\* What the specification asks of a pose: index extended, no other finger.
IndexOnly(pose) == pose["index"] = "ext" /\ \A f \in Fingers \ {"index"} : pose[f] # "ext"

\* The frames of the classifier's poses, by what the specification asks.
IndexOnlyFrames == {ClassFrameOf[pose, v] : pose \in {q \in ClassPoses : IndexOnly(q)}, v \in {0, 1}}
OtherHandFrames == {ClassFrameOf[pose, v] : pose \in {q \in ClassPoses : ~IndexOnly(q)}, v \in {0, 1}}
ComboFrames == {ClassFrameOf[pose, v] : pose \in [Fingers -> {"ext", "curl"}], v \in {0, 1}}

FiredCount(e) == Cardinality({i \in 1..Len(fired) : fired[i].ev = e})

\* C1: for a hand-present frame in any of the 16 extended/curled combinations
\* of index, middle, ring and pinky, the drawing signal (stored flag, hook
\* state, onDrawingPoint fired) is true iff the index alone is extended; for a
\* frame with no hand the signal is false and no fingertip point is emitted.
C1_TruthTable ==
    call = "processResults" =>
        /\ results \in ComboFrames =>
              LET want == results \in IndexOnlyFrames
              IN  /\ prevDrawingState = want
                  /\ state.isDrawing = want
                  /\ FiredCount("onDrawingPoint") = (IF want THEN 1 ELSE 0)
        /\ results = NoHand =>
              /\ ~prevDrawingState
              /\ ~state.isDrawing
              /\ state.indexFingerTip = Null
              /\ FiredCount("onDrawingPoint") = 0

\* After a frame with index and pinky extended (not drawing), a frame with the
\* index alone extended was classified as drawing and its point delivered.
C1_Witness ==
    /\ call = "processResults"
    /\ results = ClassFrame(Pointing, 1)
    /\ prevDrawingState
    /\ FiredCount("onDrawingPoint") = 1
    /\ runPoints = 1
    /\ handSinceEnd = 2

\* The twelve landmark heights the classification may read.
RelevantYs(res) ==
    [i \in 5..20 \ {7, 11, 15, 19} |-> res.multiHandLandmarks[1][i].y]

HasHand(res) == Len(res.multiHandLandmarks) > 0

\* C2: a finger counts as extended only with tip.y < pip.y < mcp.y, both
\* strict (a pose with a tie at either joint is not extended), and two frames
\* that agree on the tip/PIP/MCP heights of index, middle, ring and pinky get
\* the same drawing signal, whatever the thumb, the wrist and the x and z
\* coordinates are.
C2_StrictAndIndependent ==
    [][call' = "processResults" /\ HasHand(results') =>
          /\ results' \in IndexOnlyFrames => prevDrawingState'
          /\ results' \in OtherHandFrames => ~prevDrawingState'
          /\ (call = "processResults" /\ HasHand(results)
                 /\ RelevantYs(results') = RelevantYs(results))
                => prevDrawingState' = prevDrawingState]_vars

\* The index held at a tie (tip level with PIP), thumb, wrist, x and z moved,
\* processed after another hand frame, and not classified as drawing.
C2_Witness ==
    /\ call = "processResults"
    /\ results = ClassFrame([Pointing EXCEPT !["index"] = "tieTipPip"], 1)
    /\ state.handDetected /\ state.indexFingerTip.x = 0
    /\ ~prevDrawingState
    /\ nOps = 2

(***************************************************************************)
(* A LightSmoother taken alone: smooth(point) and reset() in any order.    *)
(***************************************************************************)
SmoothPoints == {Pt(px, py) : px \in {0, 5}, py \in {0, 10}}

\* pointSmoother.smooth(point)
Smooth(point) ==
    LET sm == smooth(lastPoint, point)
    IN  /\ lastPoint' = sm.lastPoint
        /\ fired' = <<Event("return", sm.ret)>>
        /\ results' = point
        /\ call' = "smooth"
        /\ nOps' = nOps + 1
        /\ UNCHANGED <<prevDrawingState, state, dc, strokes, histVars, session, scene>>

\* pointSmoother.reset()
Reset ==
    /\ lastPoint' = reset
    /\ fired' = <<>>
    /\ results' = Null
    /\ call' = "reset"
    /\ nOps' = nOps + 1
    /\ UNCHANGED <<prevDrawingState, state, dc, strokes, histVars, session, scene>>

SmoothCall == \E point \in SmoothPoints : nOps < MaxCalls /\ Smooth(point)

ResetCall == nOps < MaxCalls /\ Reset

NextSmoother == SmoothCall \/ ResetCall

SpecSmoother == Init /\ [][NextSmoother]_vars

Abs(n) == IF n < 0 THEN 0 - n ELSE n

\* C9: with the state seeded, a call with input c replaces the error s - c by
\* (1 - 0.8) * (s - c) on each axis (5 * (new - c) = s - c), so the error does
\* not grow and does not change sign; a state equal to c returns exactly c.
C9_ErrorContracts ==
    [][call' = "smooth" /\ lastPoint # Null =>
          LET c == results'
              ret == fired'[1].point
          IN  /\ 5 * (lastPoint'.x - c.x) = lastPoint.x - c.x
              /\ 5 * (lastPoint'.y - c.y) = lastPoint.y - c.y
              /\ Abs(ret.x - c.x) <= Abs(lastPoint.x - c.x)
              /\ Abs(ret.y - c.y) <= Abs(lastPoint.y - c.y)
              /\ (ret.x - c.x) * (lastPoint.x - c.x) >= 0
              /\ (ret.y - c.y) * (lastPoint.y - c.y) >= 0
              /\ (lastPoint = c => ret = c /\ lastPoint' = c)]_vars

\* Seeded at x = 0, then three calls with the constant input x = 5: the error
\* on x is 5/125 of a pixel, and y, seeded by the input, is exactly the input.
C9_Witness ==
    /\ call = "smooth"
    /\ nOps = 4
    /\ results = Pt(5, 10)
    /\ 125 * (results.x - lastPoint.x) = results.x
    /\ lastPoint.y = results.y

(***************************************************************************)
(* A DrawingCanvas handle taken alone: addPoint, endStroke and clear in    *)
(* any order.  The points are 1 px, 2 px and more than 2 px apart.         *)
(***************************************************************************)
RecPoints == {Pt(0, 0), Pt(1, 0), Pt(2, 0), Pt(1, 2)}

\* handle.addPoint(point)
AddPoint(point) ==
    /\ dc' = addPoint(dc, point)
    /\ results' = point
    /\ fired' = <<>>
    /\ call' = "addPoint"
    /\ nOps' = nOps + 1
    /\ UNCHANGED <<hookVars, strokes, histVars, session, scene>>

\* handle.endStroke()
EndStroke ==
    /\ dc' = endStroke(dc)
    /\ results' = Null
    /\ fired' = <<>>
    /\ call' = "endStroke"
    /\ nOps' = nOps + 1
    /\ UNCHANGED <<hookVars, strokes, histVars, session, scene>>

\* handle.clear()
ClearCanvas ==
    /\ dc' = clear(dc)
    /\ results' = Null
    /\ fired' = <<>>
    /\ call' = "clear"
    /\ nOps' = nOps + 1
    /\ UNCHANGED <<hookVars, strokes, histVars, session, scene>>

AddPointCall == \E point \in RecPoints : nOps < MaxRecOps /\ AddPoint(point)

EndStrokeCall == nOps < MaxRecOps /\ EndStroke

ClearCall == nOps < MaxRecOps /\ ClearCanvas

NextRecorder == AddPointCall \/ EndStrokeCall \/ ClearCall

SpecRecorder == Init /\ [][NextRecorder]_vars

\* C10: of two consecutive addPoint calls with the same coordinates, the second
\* changes nothing: the in-progress stroke, the last and previous point and
\* the completed strokes stay as the first call left them, so the two calls
\* together store the point at most once (exactly once when the first call
\* was accepted, which it always is from an empty stroke).
C10_SamePointTwice ==
    [][call = "addPoint" /\ call' = "addPoint" /\ results' = results =>
          /\ dc' = dc
          /\ (dc.lastPointRef = results =>
                 /\ dc'.currentStrokeRef[Len(dc'.currentStrokeRef)] = results
                 /\ Len(dc'.currentStrokeRef) >= 2 =>
                       dc'.currentStrokeRef[Len(dc'.currentStrokeRef) - 1] # results)]_vars

\* (0,0) accepted, (2,0) accepted at exactly 2 px, (2,0) again: two points.
C10_Witness ==
    /\ call = "addPoint"
    /\ nOps = 3
    /\ results = Pt(2, 0)
    /\ dc.currentStrokeRef = <<Pt(0, 0), Pt(2, 0)>>
    /\ dc.lastPointRef = Pt(2, 0)
    /\ dc.previousPointRef = Pt(0, 0)

\* C11: addPoint leaves the in-progress stroke as it was or appends its
\* argument to it, and does not touch the completed strokes; endStroke with
\* fewer than 2 points in the in-progress stroke leaves getStrokes() as it
\* was, and with 2 or more appends exactly one entry, at the end, equal to the
\* in-progress stroke, point for point.
C11_EndStrokeContract ==
    [][/\ call' = "addPoint" =>
              /\ dc'.currentStrokeRef = dc.currentStrokeRef
                    \/ dc'.currentStrokeRef = Append(dc.currentStrokeRef, results')
              /\ getStrokes(dc') = getStrokes(dc)
       /\ call' = "endStroke" =>
              IF Len(dc.currentStrokeRef) < 2
              THEN getStrokes(dc') = getStrokes(dc)
              ELSE /\ Len(getStrokes(dc')) = Len(getStrokes(dc)) + 1
                   /\ SubSeq(getStrokes(dc'), 1, Len(getStrokes(dc))) = getStrokes(dc)
                   /\ getStrokes(dc')[Len(getStrokes(dc'))] = dc.currentStrokeRef]_vars

\* (0,0) and (2,0) accepted and ended, then (0,0) alone and ended: the
\* collection holds the first stroke only.
C11_Witness ==
    /\ call = "endStroke"
    /\ nOps = 5
    /\ getStrokes(dc) = <<(<<Pt(0, 0), Pt(2, 0)>>)>>
    /\ dc.currentStrokeRef = <<>>

\* The squared distance of two points, in px^2 * Scale^2.
SqDist(a, b) == (a.x - b.x) * (a.x - b.x) + (a.y - b.y) * (a.y - b.y)

\* C27: addPoint on an empty in-progress stroke stores its point as the only
\* point and as the last point; on a stroke with points it appends the point
\* and makes it the last point when its squared distance to the last point of
\* the stroke is 4 or more, and otherwise leaves the in-progress stroke, the
\* last point, the previous point and the completed strokes as they were; in
\* no case does it touch the completed strokes.
C27_AddPointFilter ==
    [][call' = "addPoint" =>
          /\ getStrokes(dc') = getStrokes(dc)
          /\ IF dc.currentStrokeRef = <<>>
             THEN /\ dc'.currentStrokeRef = <<results'>>
                  /\ dc'.lastPointRef = results'
             ELSE LET last == dc.currentStrokeRef[Len(dc.currentStrokeRef)]
                  IN  IF SqDist(last, results') >= 4 * Scale * Scale
                      THEN /\ dc'.currentStrokeRef = Append(dc.currentStrokeRef, results')
                           /\ dc'.lastPointRef = results'
                      ELSE dc' = dc]_vars

\* (0,0), then (2,0) accepted at exactly 2 px, then (1,0) rejected at 1 px.
C27_Witness ==
    /\ call = "addPoint"
    /\ nOps = 3
    /\ results = Pt(1, 0)
    /\ dc.currentStrokeRef = <<Pt(0, 0), Pt(2, 0)>>
    /\ dc.lastPointRef = Pt(2, 0)
    /\ dc.previousPointRef = Pt(0, 0)

\* C28: endStroke leaves the in-progress stroke empty and the last and the
\* previous point unset, whether it kept the stroke or dropped it; the addPoint
\* that follows an endStroke is accepted as the first point of a new stroke,
\* however close it is to the last point of the stroke that ended.
C28_EndStrokeResets ==
    [][/\ call' = "endStroke" =>
              /\ dc'.currentStrokeRef = <<>>
              /\ dc'.lastPointRef = Null
              /\ dc'.previousPointRef = Null
       /\ (call = "endStroke" /\ call' = "addPoint") =>
              /\ dc'.currentStrokeRef = <<results'>>
              /\ dc'.lastPointRef = results'
              /\ dc'.previousPointRef = Null
              /\ getStrokes(dc') = getStrokes(dc)]_vars

\* (0,0) and (2,0) ended as a stroke, (1,0) ended and dropped, then (1,0)
\* again, accepted as a first point.
C28_Witness ==
    /\ call = "addPoint"
    /\ nOps = 6
    /\ results = Pt(1, 0)
    /\ dc.currentStrokeRef = <<Pt(1, 0)>>
    /\ dc.lastPointRef = Pt(1, 0)
    /\ dc.previousPointRef = Null
    /\ getStrokes(dc) = <<(<<Pt(0, 0), Pt(2, 0)>>)>>

\* Every two consecutive points of the stroke are 2 px or more apart.
Apart(stroke) ==
    \A i \in 1..(Len(stroke) - 1) : SqDist(stroke[i], stroke[i + 1]) >= 4 * Scale * Scale

\* C34: in every reachable state of the recorder, any two consecutive points
\* of the in-progress stroke and of every completed stroke are at squared
\* distance 4 or more.
C34_AdjacentPointsApart ==
    /\ Apart(dc.currentStrokeRef)
    /\ \A i \in 1..Len(getStrokes(dc)) : Apart(getStrokes(dc)[i])

\* A completed stroke (0,0), (2,0), (1,2) and an in-progress stroke (1,0),
\* (1,2), each pair 2 px or more apart.
C34_Witness ==
    /\ getStrokes(dc) = <<(<<Pt(0, 0), Pt(2, 0), Pt(1, 2)>>)>>
    /\ dc.currentStrokeRef = <<Pt(1, 0), Pt(1, 2)>>
    /\ nOps = 6

(***************************************************************************)
(* The DrawingCanvas handle and the App's callbacks that drive it, called  *)
(* in any order.                                                           *)
(***************************************************************************)
\* App.handleDrawingEnd()
HandleDrawingEnd ==
    LET ended == handleDrawingEnd(dc, strokes)
    IN  /\ dc' = ended.dc
        /\ strokes' = ended.strokes
        /\ results' = Null
        /\ fired' = <<>>
        /\ call' = "handleDrawingEnd"
        /\ nOps' = nOps + 1
        /\ scene' = setStrokesAppended(scene, Len(ended.strokes) - Len(strokes))
        /\ UNCHANGED <<hookVars, histVars, session>>

DrawingEndCall == nOps < MaxRecOps /\ HandleDrawingEnd

HandleClearCall == nOps < MaxRecOps /\ HandleClear

NextApp == AddPointCall \/ EndStrokeCall \/ ClearCall \/ DrawingEndCall \/ HandleClearCall

SpecApp == Init /\ [][NextApp]_vars

\* C12: in every reachable state every stroke of the recorder's completed
\* collection and every stroke of the App's strokes list has 2 or more points.
C12_StrokesHaveTwoPoints ==
    /\ \A i \in 1..Len(getStrokes(dc)) : Len(getStrokes(dc)[i]) >= 2
    /\ \A i \in 1..Len(strokes) : Len(strokes[i]) >= 2

\* After five calls the last of which is handleDrawingEnd, the App's list
\* holds the one stroke (0,0), (2,0) and the recorder is empty (as after
\* addPoint (0,0), handleDrawingEnd, which drops the single point, then
\* addPoint (0,0), addPoint (2,0), handleDrawingEnd).
C12_Witness ==
    /\ call = "handleDrawingEnd"
    /\ nOps = 5
    /\ strokes = <<(<<Pt(0, 0), Pt(2, 0)>>)>>
    /\ dc = EmptyCanvas

\* C13: clear() and the App's clear action leave getStrokes() empty, the
\* in-progress stroke empty and the last and previous point unset, whatever
\* the recorder held; the App's clear action leaves the App's strokes list
\* empty; an addPoint that follows either is accepted as a first point.
C13_ClearResets ==
    [][/\ call' \in {"clear", "handleClear"} =>
              /\ getStrokes(dc') = <<>>
              /\ dc'.currentStrokeRef = <<>>
              /\ dc'.lastPointRef = Null
              /\ dc'.previousPointRef = Null
       /\ call' = "handleClear" => strokes' = <<>>
       /\ (call \in {"clear", "handleClear"} /\ call' = "addPoint") =>
              /\ dc'.currentStrokeRef = <<results'>>
              /\ dc'.lastPointRef = results'
              /\ dc'.previousPointRef = Null]_vars

\* addPoint (1,0) as the fifth call, accepted as the first point of a stroke,
\* with both collections empty (as after two accepted points, endStroke,
\* the App's clear action, addPoint (1,0)).
C13_Witness ==
    /\ call = "addPoint"
    /\ nOps = 5
    /\ results = Pt(1, 0)
    /\ dc.currentStrokeRef = <<Pt(1, 0)>>
    /\ dc.lastPointRef = Pt(1, 0)
    /\ getStrokes(dc) = <<>>
    /\ strokes = <<>>

\* s is an initial part of t.
IsPrefix(s, t) == Len(s) <= Len(t) /\ SubSeq(t, 1, Len(s)) = s

\* C22: every call other than the App's clear action leaves the App's strokes
\* list as a prefix of the list after the call; so between two clear actions
\* the list at any earlier time is a prefix of the list at any later time, and
\* a stroke keeps the index it was given.
C22_NeverReordered ==
    [][call' # "handleClear" => IsPrefix(strokes, strokes')]_vars

\* The sixth call, handleDrawingEnd, has put a second stroke behind the first
\* in the App's list.
C22_Witness ==
    /\ call = "handleDrawingEnd"
    /\ nOps = 6
    /\ strokes = <<(<<Pt(0, 0), Pt(2, 0)>>), (<<Pt(1, 2), Pt(1, 0)>>)>>

\* C23: addPoint and endStroke leave every stroke of the recorder's completed
\* collection, point for point, at its place; handleDrawingEnd hands the
\* strokes the recorder held to the App point for point; and addPoint,
\* endStroke and clear leave every stroke of the App's list as it was.
C23_CommittedImmutable ==
    [][/\ call' \in {"addPoint", "endStroke"} =>
              \A i \in 1..Len(getStrokes(dc)) :
                  /\ i <= Len(getStrokes(dc'))
                  /\ getStrokes(dc')[i] = getStrokes(dc)[i]
       /\ call' = "handleDrawingEnd" =>
              \A i \in 1..Len(getStrokes(dc)) :
                  /\ Len(strokes) + i <= Len(strokes')
                  /\ strokes'[Len(strokes) + i] = getStrokes(dc)[i]
       /\ call' \in {"addPoint", "endStroke", "clear"} =>
              \A i \in 1..Len(strokes) :
                  /\ i <= Len(strokes')
                  /\ strokes'[i] = strokes[i]]_vars

\* The seventh call, addPoint (0,0), starts a stroke while the recorder holds
\* the committed stroke (1,2), (1,0) and the App the stroke (0,0), (2,0).
C23_Witness ==
    /\ call = "addPoint"
    /\ nOps = 7
    /\ results = Pt(0, 0)
    /\ dc.currentStrokeRef = <<Pt(0, 0)>>
    /\ getStrokes(dc) = <<(<<Pt(1, 2), Pt(1, 0)>>)>>
    /\ strokes = <<(<<Pt(0, 0), Pt(2, 0)>>)>>

(***************************************************************************)
(* ThreeScene (src/components/three-scene.tsx): chaikinSmooth, downsample  *)
(* and ClayTube.                                                           *)
(*                                                                         *)
(* A scene coordinate c is held as the integer c * SceneDen; SceneDen is   *)
(* large enough that the normalisation of a whole-pixel stroke and every   *)
(* corner-cutting pass within the bounds are exact.                        *)
(***************************************************************************)
MaxIter == 3        \* iteration counts tried on chaikinSmooth: 0..MaxIter
MaxStrokeLen == 60  \* points of a stroke handed to downsample and ClayTube
MaxIndex == 6       \* stroke indices handed to ClayTube: 0..MaxIndex
MaxSceneStrokes == 7    \* strokes of a list handed to ThreeScene
MaxRenderOps == 9   \* App callbacks and resizes with the scene rendered

BlendNear == 3              \* 0.75 = 3/4
BlendFar == 1               \* 0.25 = 1/4
BlendDen == 4
ChaikinIterations == 3      \* chaikinSmooth(normalizedPoints, 3)
MaxTubePoints == 30         \* Math.min(stroke.length, 30)
MinStrokePoints == 3        \* if (stroke.length < 3) return null
MinCurvePoints == 2         \* if (curve3DPoints.length < 2) return null
MaxTubularSegments == 64    \* Math.min(curve3DPoints.length * 3, 64)
\* A variant of HUES whose last hue repeats the first.
HUESRepeated == <<186, 210, 280, 330, 45, 186>>

HUES == <<186, 210, 280, 330, 45, 150>>
TUBE_RADIUS == [num |-> 12, den |-> 100]
RADIAL_SEGMENTS == 12

Min(a, b) == IF a <= b THEN a ELSE b

SceneDen == 3 * CanvasW * Pow(BlendDen, Max(MaxIter, ChaikinIterations))

ScenePt(sx, sy) == [x |-> sx * SceneDen, y |-> sy * SceneDen]

\* A variant of blend with the weights exchanged.
blendSwapped(p0, p1) ==
    [x |-> (BlendFar * p0.x + BlendNear * p1.x) \div BlendDen,
     y |-> (BlendFar * p0.y + BlendNear * p1.y) \div BlendDen]

\* 0.75 * p0 + 0.25 * p1, on x and on y.
blend(p0, p1) ==
    [x |-> (BlendNear * p0.x + BlendFar * p1.x) \div BlendDen,
     y |-> (BlendNear * p0.y + BlendFar * p1.y) \div BlendDen]

\* A variant of chaikinPass that cuts the two end corners as well.
chaikinPassCutsEnds(result) ==
    LET len == Len(result)
    IN  [k \in 1..((len - 1) * 2) |->
            LET i == (k - 1) \div 2
            IN  IF (k - 1) % 2 = 0
                THEN blend(result[i + 1], result[i + 2])
                ELSE blend(result[i + 2], result[i + 1])]

\* One iteration of the loop: first point, two blends per pair, last point.
chaikinPass(result) ==
    LET len == Len(result)
    IN  [k \in 1..(1 + (len - 1) * 2 + 1) |->
            IF k = 1 THEN result[1]
            ELSE IF k = 1 + (len - 1) * 2 + 1 THEN result[len]
            ELSE LET i == (k - 2) \div 2
                 IN  IF (k - 2) % 2 = 0
                     THEN blend(result[i + 1], result[i + 2])
                     ELSE blend(result[i + 2], result[i + 1])]

RECURSIVE chaikinLoop(_, _)
chaikinLoop(result, iterations) ==
    IF iterations <= 0
    THEN result
    ELSE chaikinLoop(chaikinPass(result), iterations - 1)

\* A variant of chaikinSmooth that stops after one pass.
chaikinSmoothOnePass(points, iterations) ==
    IF Len(points) < 3 THEN points ELSE chaikinLoop(points, Min(iterations, 1))

chaikinSmooth(points, iterations) ==
    IF Len(points) < 3 THEN points ELSE chaikinLoop(points, iterations)

\* A variant of round that rounds down.
roundDown(num, den) == num \div den

\* Math.round(num / den) for num >= 0 and den > 0.
round(num, den) == (2 * num + den) \div (2 * den)

\* points[Math.min(Math.round(i * step), len - 1)] with step = stepNum / stepDen,
\* for the 0-based i; sequences of the model are 1-based.
pick(points, i, stepNum, stepDen) ==
    points[Min(round(i * stepNum, stepDen), Len(points) - 1) + 1]

downsample(points, targetCount) ==
    LET len == Len(points)
    IN  IF len <= targetCount
        THEN points
        ELSE [k \in 1..targetCount |-> pick(points, k - 1, len - 1, targetCount - 1)]

\* A variant of maxPoints without the cap.
maxPointsUncapped(stroke) == Len(stroke)

\* ClayTube: const maxPoints = Math.min(stroke.length, 30)
maxPoints(stroke) == Min(Len(stroke), MaxTubePoints)

\* ClayTube: x * scaleX - 2.5 and -(y * scaleY - 2), scaleX = 5 / canvasWidth,
\* scaleY = 4 / canvasHeight.
normalize(p, w, h) ==
    [x |-> (p.x * ((5 * SceneDen) \div w)) \div Scale - (5 * SceneDen) \div 2,
     y |-> 0 - ((p.y * ((4 * SceneDen) \div h)) \div Scale - 2 * SceneDen)]

\* ClayTube: the loop that normalises, centres and downsamples.
normalizedPoints(stroke, w, h) ==
    LET n == maxPoints(stroke)
        stepNum == IF Len(stroke) > n THEN Len(stroke) - 1 ELSE 1
        stepDen == IF Len(stroke) > n THEN n - 1 ELSE 1
    IN  [k \in 1..n |-> normalize(pick(stroke, k - 1, stepNum, stepDen), w, h)]

\* A variant of tooShort that lets a stroke of two points through.
tooShortBelowTwo(stroke) == Len(stroke) < 2

\* ClayTube: if (stroke.length < 3) return null
tooShort(stroke) == Len(stroke) < MinStrokePoints

\* ClayTube: the geometry memo.  z = Math.sin(i * 0.15) * 0.15 + zOffset is
\* held as the index i of the point and zOffset = index * 0.5 in tenths.
geometry(stroke, index, w, h) ==
    IF tooShort(stroke)
    THEN Null
    ELSE LET smoothedPoints == chaikinSmooth(normalizedPoints(stroke, w, h), ChaikinIterations)
             curve3DPoints == [k \in 1..Len(smoothedPoints) |->
                                  [x |-> smoothedPoints[k].x, y |-> smoothedPoints[k].y,
                                   zi |-> k - 1, zOffset |-> index * 5]]
         IN  IF Len(curve3DPoints) < MinCurvePoints
             THEN Null
             ELSE [curve |-> curve3DPoints,
                   tubularSegments |-> Min(Len(curve3DPoints) * 3, MaxTubularSegments),
                   radius |-> TUBE_RADIUS,
                   radialSegments |-> RADIAL_SEGMENTS]

\* A variant of ClayTube that takes the hue of the next index.
ClayTubeHueShifted(stroke, index, w, h) ==
    LET g == geometry(stroke, index, w, h)
        hue == HUES[((index + 1) % Len(HUES)) + 1]
    IN  IF g = Null
        THEN Null
        ELSE [geometry |-> g, positionZ |-> index * 3, hue |-> hue]

\* ClayTube's render: null without geometry, else the mesh; position z is
\* index * 0.3, in tenths.
ClayTube(stroke, index, w, h) ==
    LET g == geometry(stroke, index, w, h)
        hue == HUES[(index % Len(HUES)) + 1]
    IN  IF g = Null
        THEN Null
        ELSE [geometry |-> g, positionZ |-> index * 3, hue |-> hue]

\* ThreeScene's render: strokes.map((stroke, index) => <ClayTube ... />), the
\* stroke at list position k rendered with index k - 1.
ThreeScene(strokeList, w, h) ==
    [k \in 1..Len(strokeList) |-> ClayTube(strokeList[k], k - 1, w, h)]

(***************************************************************************)
(* The scene's functions applied once to an input drawn at the start.      *)
(***************************************************************************)
\* Lists of 0 to 4 scene points, with repeated and distinct neighbours.
ChaikinPoints == {ScenePt(0, 0), ScenePt(1, 2)}

ChaikinLists == UNION {[1..n -> ChaikinPoints] : n \in 0..4}

ChaikinInputs ==
    {[fn |-> "chaikinSmooth", points |-> pts, iterations |-> it] :
        pts \in ChaikinLists, it \in 0..MaxIter}

\* Strokes of whole-pixel points 2 px or more apart: a line and a zigzag.
StrokeShapes == {"line", "zigzag"}

StrokeOf(shape, n) ==
    [i \in 1..n |-> Pt(2 * (i - 1), IF shape = "line" THEN 10 ELSE 10 + 3 * ((i - 1) % 2))]

SceneStrokes == {StrokeOf(shape, n) : shape \in StrokeShapes, n \in 0..MaxStrokeLen}

DownsampleInputs ==
    {[fn |-> "downsample", points |-> st, targetCount |-> MaxTubePoints] : st \in SceneStrokes}

ClayTubeInputs ==
    {[fn |-> "ClayTube", stroke |-> st, index |-> ix] : st \in SceneStrokes, ix \in 0..MaxIndex}

\* Lists of strokes as the App holds them: of 2 points (no mesh), 3 and 4.
SceneStrokeKinds == {StrokeOf("line", 2), StrokeOf("line", 3), StrokeOf("zigzag", 4)}

ThreeSceneInputs ==
    {[fn |-> "ThreeScene", strokes |-> sl] :
        sl \in UNION {[1..n -> SceneStrokeKinds] : n \in 0..MaxSceneStrokes}}

SceneInputs == ChaikinInputs \cup DownsampleInputs \cup ClayTubeInputs \cup ThreeSceneInputs

InitScene ==
    /\ lastPoint = Null
    /\ prevDrawingState = FALSE
    /\ state = InitState
    /\ dc = EmptyCanvas
    /\ strokes = <<>>
    /\ results \in SceneInputs
    /\ fired = <<>>
    /\ call = "init"
    /\ runPoints = 0
    /\ runAccepted = 0
    /\ runTrace = <<>>
    /\ runClears = 0
    /\ ends = 0
    /\ handSinceEnd = 0
    /\ nOps = 0
    /\ session = InitSession
    /\ scene = EmptyScene

SceneUnchanged == UNCHANGED <<hookVars, dc, strokes, results, histVars, session, scene>>

\* chaikinSmooth(points, iterations)
ChaikinSmoothCall ==
    /\ call = "init" /\ results.fn = "chaikinSmooth"
    /\ fired' = <<Event("return", chaikinSmooth(results.points, results.iterations))>>
    /\ call' = "chaikinSmooth"
    /\ nOps' = nOps + 1
    /\ SceneUnchanged

\* downsample(points, targetCount)
DownsampleCall ==
    /\ call = "init" /\ results.fn = "downsample"
    /\ fired' = <<Event("return", downsample(results.points, results.targetCount))>>
    /\ call' = "downsample"
    /\ nOps' = nOps + 1
    /\ SceneUnchanged

\* <ClayTube stroke index canvasWidth canvasHeight />: the points the
\* geometry memo sampled, and what the component rendered.
ClayTubeCall ==
    /\ call = "init" /\ results.fn = "ClayTube"
    /\ fired' = <<Event("normalizedPoints",
                        IF tooShort(results.stroke) THEN Null
                        ELSE normalizedPoints(results.stroke, CanvasW, CanvasH)),
                  Event("return", ClayTube(results.stroke, results.index, CanvasW, CanvasH))>>
    /\ call' = "ClayTube"
    /\ nOps' = nOps + 1
    /\ SceneUnchanged

\* <ThreeScene strokes canvasWidth canvasHeight />: what each ClayTube rendered.
ThreeSceneCall ==
    /\ call = "init" /\ results.fn = "ThreeScene"
    /\ fired' = <<Event("return", ThreeScene(results.strokes, CanvasW, CanvasH))>>
    /\ call' = "ThreeScene"
    /\ nOps' = nOps + 1
    /\ SceneUnchanged

NextScene == ChaikinSmoothCall \/ DownsampleCall \/ ClayTubeCall \/ ThreeSceneCall

SpecScene == InitScene /\ [][NextScene]_vars

\* The value the last call returned.
Returned == fired[Len(fired)].point

\* C14: for a list of 3 or more points and every iteration count from 0 up,
\* the first and last points chaikinSmooth returns are the first and last
\* points it was given; in ClayTube the curve starts and ends at the first
\* and last of the normalised, downsampled points.
C14_ChaikinEndpoints ==
    /\ (call = "chaikinSmooth" /\ Len(results.points) >= 3) =>
          /\ Returned[1] = results.points[1]
          /\ Returned[Len(Returned)] = results.points[Len(results.points)]
    /\ (call = "ClayTube" /\ Returned # Null) =>
          LET np == fired[1].point
              curve == Returned.geometry.curve
          IN  /\ curve[1].x = np[1].x /\ curve[1].y = np[1].y
              /\ curve[Len(curve)].x = np[Len(np)].x
              /\ curve[Len(curve)].y = np[Len(np)].y

\* Three passes over (0,0), (0,0), (1,2): 24 points from (0,0) to (1,2), the
\* one before the last off the end point.
C14_Witness ==
    /\ call = "chaikinSmooth"
    /\ results.iterations = 3
    /\ results.points = <<ScenePt(0, 0), ScenePt(0, 0), ScenePt(1, 2)>>
    /\ Len(Returned) = 24
    /\ Returned[1] = ScenePt(0, 0)
    /\ Returned[24] = ScenePt(1, 2)
    /\ Returned[23] # ScenePt(1, 2)

\* C15: for n points downsample(points, 30) and the sampling loop of ClayTube
\* (entered with n >= 3) output min(n, 30) points: never more than 30,
\* exactly 30 when n > 30, and for n <= 30 the n input points in their order
\* (normalised, in ClayTube).
C15_DownsampleCount ==
    /\ call = "downsample" =>
          LET n == Len(results.points)
          IN  /\ Len(Returned) = (IF n <= 30 THEN n ELSE 30)
              /\ n <= 30 => Returned = results.points
    /\ (call = "ClayTube" /\ Len(results.stroke) >= 3) =>
          LET n == Len(results.stroke)
              np == fired[1].point
          IN  /\ Len(np) = (IF n <= 30 THEN n ELSE 30)
              /\ n <= 30 =>
                    \A k \in 1..n : np[k] = normalize(results.stroke[k], CanvasW, CanvasH)

\* ClayTube on a zigzag of 32 points: 30 points sampled, from the first to
\* the last, the 16th of them being the 17th of the stroke.
C15_Witness ==
    /\ call = "ClayTube"
    /\ results.stroke = StrokeOf("zigzag", 32)
    /\ Len(fired[1].point) = 30
    /\ fired[1].point[1] = normalize(results.stroke[1], CanvasW, CanvasH)
    /\ fired[1].point[16] = normalize(results.stroke[17], CanvasW, CanvasH)
    /\ fired[1].point[30] = normalize(results.stroke[32], CanvasW, CanvasH)

\* C16: ClayTube renders nothing (null) for every stroke of fewer than 3
\* points, the stroke of exactly 2 points included, and a mesh with a
\* geometry for every stroke of 3 or more points.
C16_MeshNullability ==
    call = "ClayTube" =>
        /\ Len(results.stroke) < 3 => Returned = Null /\ fired[1].point = Null
        /\ Len(results.stroke) >= 3 => Returned # Null /\ Returned.geometry # Null

\* A stroke of exactly 2 points, (0,10) and (2,10), at index 1: no mesh.
C16_Witness ==
    /\ call = "ClayTube"
    /\ results.stroke = <<Pt(0, 10), Pt(2, 10)>>
    /\ results.index = 1
    /\ Returned = Null

(***************************************************************************)
(* Sessions: startTracking, the frame loop it starts, and stopTracking,    *)
(* called on one hook in any order and interleaved at every await.         *)
(*                                                                         *)
(* Each startTracking call s runs through pc[s]:                           *)
(*   "idle"          not called                                            *)
(*   "getUserMedia"  awaiting navigator.mediaDevices.getUserMedia          *)
(*   "play"          awaiting video.play()                                 *)
(*   "failed"        the catch block ran and the error was rethrown        *)
(*   "armed"         its processFrame is a pending animation-frame callback*)
(*   "sending"       its processFrame awaits hands.send, no results yet    *)
(*   "delivered"     its processFrame awaits hands.send, results delivered *)
(*   "cancelled"     its pending callback was cancelled by stopTracking    *)
(* isProcessing is a variable of the startTracking call that declared it.  *)
(* The video element is present.  video.play() resolves only while the     *)
(* stream it was called for is still the video's srcObject, and then       *)
(* readyState >= 2; a new or null srcObject takes readyState below 2.      *)
(***************************************************************************)
SessFrames ==
    {NoHand, HandFrame(Pointing, 0, 40, 0), HandFrame(Pointing, 9, 40, 0),
     HandFrame(OpenHand, 0, 40, 0)}

\* What a step of a session leaves alone besides the hook's own variables.
SessionOnly(name) ==
    /\ call' = name
    /\ fired' = <<>>
    /\ UNCHANGED <<prevDrawingState, dc, strokes, results, histVars, nOps, scene>>

\* startTracking(), up to its first await.
StartTracking(s) ==
    /\ session.pc[s] = "idle"
    /\ \A t \in Sessions : t < s => session.pc[t] # "idle"
    /\ session' = [session EXCEPT !.pc[s] = "getUserMedia",
                                  !.afterStop[s] = session.stopped,
                                  !.stopped = FALSE]
    /\ SessionOnly("startTracking")
    /\ UNCHANGED <<lastPoint, state>>

\* getUserMedia resolves: streamRef.current = stream; video.srcObject = stream.
GetUserMediaResolves(s) ==
    /\ session.pc[s] = "getUserMedia"
    /\ session' = [session EXCEPT !.pc[s] = "play", !.streamRef = s,
                                  !.srcObject = s, !.videoReady = FALSE]
    /\ SessionOnly("startTracking")
    /\ UNCHANGED <<lastPoint, state>>

\* video.play() resolved: new Hands, handsRef.current = hands, let
\* isProcessing = false, requestAnimationFrame(processFrame).
armLoop(ses, s) ==
    [ses EXCEPT !.pc[s] = "armed", !.isProcessing[s] = FALSE, !.handsRef = s,
                !.animationFrameRef = s, !.videoReady = TRUE,
                !.restarted = ses.afterStop[s], !.sinceStart = 0]

\* The catch block taken as if the awaited call had resolved.
startFailedArms(ses, s) == armLoop(ses, s)

\* The catch block of startTracking (lines 316-320): the statements after the
\* failed await are skipped, the error is logged and thrown again.
startFailed(ses, s) == [ses EXCEPT !.pc[s] = "failed"]

\* getUserMedia rejects: the catch block.
GetUserMediaRejects(s) ==
    /\ session.pc[s] = "getUserMedia"
    /\ session' = startFailed(session, s)
    /\ state' = [state EXCEPT !.isTracking = FALSE]
    /\ SessionOnly("startTrackingFailed")
    /\ UNCHANGED lastPoint

PlayResolves(s) ==
    /\ session.pc[s] = "play"
    /\ session.srcObject = s
    /\ session' = armLoop(session, s)
    /\ state' = [state EXCEPT !.isTracking = TRUE]
    /\ SessionOnly("startTracking")
    /\ UNCHANGED lastPoint

\* video.play() rejects: the catch block.
PlayRejects(s) ==
    /\ session.pc[s] = "play"
    /\ session' = startFailed(session, s)
    /\ state' = [state EXCEPT !.isTracking = FALSE]
    /\ SessionOnly("startTrackingFailed")
    /\ UNCHANGED lastPoint

\* if (!isProcessing && handsRef.current && video.readyState >= 2)
canSend(ses, s) ==
    /\ ~ses.isProcessing[s]
    /\ ses.handsRef # 0
    /\ ses.videoReady

\* The animation-frame callback of call s runs: processFrame up to its await,
\* or to its end when the send is skipped.
ProcessFrame(s) ==
    /\ session.pc[s] = "armed"
    /\ session' = IF canSend(session, s)
                  THEN [session EXCEPT !.pc[s] = "sending", !.isProcessing[s] = TRUE]
                  ELSE [session EXCEPT !.animationFrameRef = s]
    /\ SessionOnly("processFrame")
    /\ UNCHANGED <<lastPoint, state>>

\* hands.send hands its results to processResults.
SendDelivers(s, res) ==
    /\ session.pc[s] = "sending"
    /\ ProcessResults(res)
    /\ session' = [session EXCEPT !.pc[s] = "delivered", !.sinceStart = @ + 1]

\* The rest of processFrame after the await (lines 310-312): isProcessing =
\* false, and the loop arms its next callback.
afterSend(ses, s) ==
    [ses EXCEPT !.pc[s] = "armed", !.isProcessing[s] = FALSE, !.animationFrameRef = s]

\* hands.send resolves.
SendSettles(s) ==
    /\ session.pc[s] \in {"sending", "delivered"}
    /\ session' = afterSend(session, s)
    /\ SessionOnly("processFrame")
    /\ UNCHANGED <<lastPoint, state>>

\* A rejected send that leaves processFrame with the error.
sendRejectedUncaught(ses, s) == [ses EXCEPT !.pc[s] = "failed"]

\* The empty catch of lines 307-309, and processFrame runs on.
sendRejected(ses, s) == afterSend(ses, s)

\* hands.send rejects, before or after it handed results to processResults.
SendRejects(s) ==
    /\ session.pc[s] \in {"sending", "delivered"}
    /\ session' = sendRejected(session, s)
    /\ SessionOnly("sendRejected")
    /\ UNCHANGED <<lastPoint, state>>

\* cancelAnimationFrame(animationFrameRef.current): the callback the ref names
\* is cancelled if it is still pending.
cancelFrame(ses) ==
    [s \in Sessions |->
        IF ses.animationFrameRef = s /\ ses.pc[s] = "armed" THEN "cancelled" ELSE ses.pc[s]]

\* stopTracking()
StopTracking ==
    /\ session' = [session EXCEPT !.pc = cancelFrame(session),
                                  !.animationFrameRef = 0, !.streamRef = 0,
                                  !.srcObject = 0, !.videoReady = FALSE,
                                  !.handsRef = 0, !.stopped = TRUE]
    /\ lastPoint' = reset
    /\ state' = InitState
    /\ SessionOnly("stopTracking")

Start == \E s \in Sessions : StartTracking(s)

CameraGranted == \E s \in Sessions : GetUserMediaResolves(s)

CameraDenied == \E s \in Sessions : GetUserMediaRejects(s)

VideoPlays == \E s \in Sessions : PlayResolves(s)

VideoFails == \E s \in Sessions : PlayRejects(s)

Tick == \E s \in Sessions : ProcessFrame(s)

Results ==
    \E s \in Sessions, res \in SessFrames : nOps < MaxSessFrames /\ SendDelivers(s, res)

Settle == \E s \in Sessions : SendSettles(s)

SendFails == \E s \in Sessions : SendRejects(s)

Stop == StopTracking

NextSession ==
    \/ Start \/ CameraGranted \/ CameraDenied \/ VideoPlays \/ VideoFails
    \/ Tick \/ Results \/ Settle \/ SendFails \/ Stop

SpecSession == Init /\ [][NextSession]_vars

\* The startTracking calls whose hands.send is in flight.
InFlight == {s \in Sessions : session.pc[s] \in {"sending", "delivered"}}

\* The step is the first frame processed since a session that began after a
\* stopTracking armed its frame loop.
FirstFrameAfterRestart ==
    /\ call' = "processResults"
    /\ nOps' = nOps + 1
    /\ session.restarted
    /\ session.sinceStart = 0

\* C18: the first frame processed in a session started after a stopTracking
\* finds the stabilizer unseeded, the stored drawing flag false and the
\* in-progress stroke empty.
C18_Original ==
    [][FirstFrameAfterRestart =>
          /\ lastPoint = Null
          /\ ~prevDrawingState
          /\ dc.currentStrokeRef = <<>>]_vars

\* Every startTracking call but the first began after a stopTracking that
\* followed the call before it.
StartsFollowStops ==
    \A s \in Sessions : (s > 1 /\ session.pc[s] # "idle") => session.afterStop[s]

\* C19: when every startTracking call follows a stopTracking of the session
\* before it, at most one hands.send, with the processResults it triggers, is
\* in flight at any time.
C19_Original == StartsFollowStops => Cardinality(InFlight) <= 1

\* The palette as the claim C24 writes it.
C24_Palette == <<186, 210, 280, 330, 45, 150>>

\* C24: a stroke rendered with index i has the hue at place i mod 6 of the
\* palette 186, 210, 280, 330, 45, 150, whether ClayTube is rendered alone or
\* as one of a list of any length, and whatever the other strokes are.
C24_HueByIndex ==
    /\ (call = "ClayTube" /\ Returned # Null) =>
          Returned.hue = C24_Palette[(results.index % 6) + 1]
    /\ call = "ThreeScene" =>
          \A k \in 1..Len(Returned) :
              Returned[k] # Null => Returned[k].hue = C24_Palette[((k - 1) % 6) + 1]

\* A scene of seven strokes, the second without mesh: the third has hue 280
\* and the seventh is back at 186.
C24_Witness ==
    /\ call = "ThreeScene"
    /\ Len(Returned) = 7
    /\ Returned[2] = Null
    /\ Returned[3] # Null /\ Returned[3].hue = 280
    /\ Returned[7] # Null /\ Returned[7].hue = 186

\* The strokes of a rendered scene that have a mesh.
Meshes == {k \in 1..Len(Returned) : Returned[k] # Null}

BeforeLastPass == chaikinSmooth(results.points, results.iterations - 1)

\* out keeps the first and last point of prev and holds, for every adjacent
\* pair of prev, its 0.75/0.25 blend and then its 0.25/0.75 blend.
CutsCorners(prev, out) ==
    /\ out[1] = prev[1]
    /\ out[Len(out)] = prev[Len(prev)]
    /\ \A i \in 1..(Len(prev) - 1) :
           /\ 4 * out[2 * i].x = 3 * prev[i].x + prev[i + 1].x
           /\ 4 * out[2 * i].y = 3 * prev[i].y + prev[i + 1].y
           /\ 4 * out[2 * i + 1].x = prev[i].x + 3 * prev[i + 1].x
           /\ 4 * out[2 * i + 1].y = prev[i].y + 3 * prev[i + 1].y

\* C30 as stated: a pass over n >= 3 points outputs 2n - 1 points.
C30_Original ==
    (call = "chaikinSmooth" /\ Len(results.points) >= 3 /\ results.iterations >= 1) =>
        Len(Returned) = 2 * Len(BeforeLastPass) - 1

\* C30: a pass over n >= 3 points outputs 2n points: the first point, the
\* two 0.75/0.25 blends of every adjacent pair in order, the last point.
C30_PassDoubles ==
    (call = "chaikinSmooth" /\ Len(results.points) >= 3 /\ results.iterations >= 1) =>
        /\ Len(Returned) = 2 * Len(BeforeLastPass)
        /\ CutsCorners(BeforeLastPass, Returned)

\* Two passes over (0,0), (1,2), (0,0): 6 points, then 12; the second of the
\* 12 lies a quarter of the way from (0,0) to the first blend (1/4, 1/2).
C30_Witness ==
    /\ call = "chaikinSmooth"
    /\ results.points = <<ScenePt(0, 0), ScenePt(1, 2), ScenePt(0, 0)>>
    /\ results.iterations = 2
    /\ Len(Returned) = 12
    /\ 16 * Returned[2].x = SceneDen
    /\ 8 * Returned[2].y = SceneDen

\* round((k - 1) * (n - 1) / 29): the 0-based index the claim C31 gives for
\* the k-th of the 30 selected points of n.
C31_Index(n, k) == (2 * (k - 1) * (n - 1) + 29) \div 58

\* C31: for a stroke of n > 30 points downsample(points, 30) and the sampling
\* loop of ClayTube select the points at the indices round(i * (n - 1) / 29),
\* i = 0..29; these start at 0, end at n - 1, lie in 0..n-1 and increase
\* strictly, and no point of the input is selected twice.
C31_SelectedIndices ==
    /\ (call = "downsample" /\ Len(results.points) > 30) =>
          LET n == Len(results.points)
          IN  /\ Len(Returned) = 30
              /\ \A k \in 1..30 : Returned[k] = results.points[C31_Index(n, k) + 1]
              /\ \A j, k \in 1..30 : j # k => Returned[j] # Returned[k]
    /\ (call = "ClayTube" /\ Len(results.stroke) > 30) =>
          LET n == Len(results.stroke)
              np == fired[1].point
          IN  /\ Len(np) = 30
              /\ \A k \in 1..30 :
                     np[k] = normalize(results.stroke[C31_Index(n, k) + 1], CanvasW, CanvasH)
              /\ \A j, k \in 1..30 : j # k => np[j] # np[k]
    /\ (call \in {"downsample", "ClayTube"} /\ results.fn = call) =>
          LET n == Len(IF call = "downsample" THEN results.points ELSE results.stroke)
          IN  n > 30 =>
                  /\ C31_Index(n, 1) = 0
                  /\ C31_Index(n, 30) = n - 1
                  /\ \A k \in 1..30 : C31_Index(n, k) \in 0..(n - 1)
                  /\ \A k \in 1..29 : C31_Index(n, k) < C31_Index(n, k + 1)

\* downsample on a line of 45 points: the second selected point is the third
\* of the line (44/29 rounds to 2), the last is the 45th.
C31_Witness ==
    /\ call = "downsample"
    /\ results.points = StrokeOf("line", 45)
    /\ Returned[1] = results.points[1]
    /\ Returned[2] = results.points[3]
    /\ Returned[30] = results.points[45]

\* C32: every stroke of 3 or more points yields a mesh; its curve has 8 points
\* for each of the min(n, 30) sampled points, so 24 or more, and its tubular
\* segment count is 64, the cap, never 3 times the number of curve points.
C32_SegmentsAtCap ==
    /\ (call = "ClayTube" /\ Len(results.stroke) >= 3) =>
          /\ Returned # Null
          /\ Len(Returned.geometry.curve)
                 = 8 * (IF Len(results.stroke) <= 30 THEN Len(results.stroke) ELSE 30)
    /\ (call = "ClayTube" /\ Returned # Null) =>
          /\ Len(Returned.geometry.curve) >= 24
          /\ 3 * Len(Returned.geometry.curve) > 64
          /\ Returned.geometry.tubularSegments = 64
    /\ call = "ThreeScene" =>
          \A k \in 1..Len(Returned) :
              Returned[k] # Null =>
                  /\ Len(Returned[k].geometry.curve) >= 24
                  /\ Returned[k].geometry.tubularSegments = 64

\* The shortest stroke with a mesh, 3 points: 24 curve points, 64 segments.
C32_Witness ==
    /\ call = "ClayTube"
    /\ Len(results.stroke) = 3
    /\ Returned # Null
    /\ Len(Returned.geometry.curve) = 24
    /\ Returned.geometry.tubularSegments = 64

(***************************************************************************)
(* The App's callbacks and the container's resizes, in any order, with the *)
(* scene rendered after each.                                              *)
(***************************************************************************)
ResizeThreshold == 5

\* Points 2 px apart: each is accepted after the other.
RenderPoints == {Pt(0, 0), Pt(2, 0)}

\* Container sizes: the first one, one within the threshold of it, one past.
RenderSizes ==
    {[width |-> CanvasW, height |-> CanvasH],
     [width |-> CanvasW + 5, height |-> CanvasH],
     [width |-> CanvasW, height |-> CanvasH + 6]}

\* updateSize with the container at size: setCanvasSize keeps prev unless the
\* width or the height moved by more than 5, and a new canvasSize re-renders
\* the scene and the overlay canvas with its width and height.
UpdateSize(size) ==
    LET prev == scene.canvasSize
        widthDiff == Abs(prev.width - size.width)
        heightDiff == Abs(prev.height - size.height)
    IN  /\ scene' = IF widthDiff > ResizeThreshold \/ heightDiff > ResizeThreshold
                    THEN commit(scene, scene.ids, size)
                    ELSE scene
        /\ session' = IF widthDiff > ResizeThreshold \/ heightDiff > ResizeThreshold
                      THEN [session EXCEPT !.canvas.width = size.width,
                                           !.canvas.height = size.height]
                      ELSE session
        /\ results' = size
        /\ fired' = <<>>
        /\ call' = "updateSize"
        /\ nOps' = nOps + 1
        /\ UNCHANGED <<hookVars, dc, strokes, histVars>>

DrawingPointRendered == \E point \in RenderPoints : nOps < MaxRenderOps /\ AddPoint(point)

DrawingEndRendered == nOps < MaxRenderOps /\ HandleDrawingEnd

ClearRendered == nOps < MaxRenderOps /\ HandleClear

UpdateSizeCall == \E size \in RenderSizes : nOps < MaxRenderOps /\ UpdateSize(size)

NextRender == DrawingPointRendered \/ DrawingEndRendered \/ ClearRendered \/ UpdateSizeCall

SpecRender == Init /\ [][NextRender]_vars

\* The keys whose geometry memo ran in the step.
Built ==
    {k \in 1..Len(scene'.builds) : k > Len(scene.builds) \/ scene'.builds[k] > scene.builds[k]}

\* C26 as stated: a step that leaves a stroke at its index with its point
\* count does not run that stroke's geometry memo.
C26_Original ==
    [][\A k \in 1..Len(strokes) :
          (k <= Len(strokes') /\ Len(strokes'[k]) = Len(strokes[k])) => k \notin Built]_vars

\* C26: a step runs the geometry memo of every stroke in the list when it
\* changes the canvas size, and otherwise of exactly the strokes it appended;
\* after every step each mounted ClayTube holds the geometry of its stroke,
\* index and the current canvas size.
C26_RebuiltOnStrokeOrSize ==
    [][/\ Built = IF scene'.canvasSize # scene.canvasSize
                  THEN 1..Len(strokes')
                  ELSE (Len(strokes) + 1)..Len(strokes')
       /\ Len(scene'.tubes) = Len(strokes')
       /\ \A k \in 1..Len(strokes') :
              scene'.tubes[k].deps
                  = [stroke |-> scene'.ids[k], scaleX |-> scene'.canvasSize.width,
                     scaleY |-> scene'.canvasSize.height, zOffset |-> k - 1]]_vars

\* Two strokes of three points, then a resize by 6 in height: both geometry
\* memos have run twice.
C26_Witness ==
    /\ call = "updateSize"
    /\ nOps = 9
    /\ Len(strokes) = 2 /\ Len(strokes[1]) = 3 /\ Len(strokes[2]) = 3
    /\ scene.canvasSize = [width |-> CanvasW, height |-> CanvasH + 6]
    /\ scene.builds = <<2, 2>>

\* The sessions followed through their awaits and frame loops, with few
\* frames delivered: a hand-lost frame or one drawing frame.
LoopFrames == {NoHand, HandFrame(Pointing, 0, 40, 0)}

LoopResults ==
    \E s \in Sessions, res \in LoopFrames : nOps < MaxLoopFrames /\ SendDelivers(s, res)

NextLoop ==
    \/ Start \/ CameraGranted \/ CameraDenied \/ VideoPlays \/ VideoFails
    \/ Tick \/ LoopResults \/ Settle \/ SendFails \/ Stop

SpecLoop == Init /\ [][NextLoop]_vars

\* The startTracking calls that ended in the catch block.
Failed == {s \in Sessions : session.pc[s] = "failed"}

\* C36: the step in which getUserMedia or video.play() rejects sets isTracking
\* to false, ends the call in its catch block with the error thrown to the
\* caller, fires no event, registers no Hands instance and arms no animation
\* frame; a call that ended this way never arms a frame, never sends and
\* never has results processed, so no onDrawingPoint or onDrawingEnd is fired
\* for it.
C36_FailedStart ==
    [][/\ call' = "startTrackingFailed" =>
              /\ \E s \in Sessions :
                     /\ session.pc[s] \in {"getUserMedia", "play"}
                     /\ session'.pc = [session.pc EXCEPT ![s] = "failed"]
              /\ ~state'.isTracking
              /\ fired' = <<>>
              /\ session'.handsRef = session.handsRef
              /\ session'.animationFrameRef = session.animationFrameRef
       /\ \A s \in Failed :
              /\ session'.pc[s] = "failed"
              /\ session'.handsRef # s
              /\ session'.animationFrameRef # s]_vars

\* The first call failed at video.play(); the second call runs, and a frame
\* of its loop has fired onDrawingPoint.
C36_Witness ==
    /\ session.pc = <<"failed", "delivered">>
    /\ session.streamRef = 2
    /\ call = "processResults"
    /\ FiredCount("onDrawingPoint") = 1
    /\ state.isTracking

\* The frame loops taken alone.  What a send hands to processResults is
\* read and written by no statement of startTracking, processFrame or
\* stopTracking, and is left out: every send settles without results.
NextSend ==
    \/ Start \/ CameraGranted \/ CameraDenied \/ VideoPlays \/ VideoFails
    \/ Tick \/ Settle \/ SendFails \/ Stop

SpecSend == Init /\ [][NextSend]_vars

\* The frame loops with every hands.send settling: the promise a send
\* returned is resolved or rejected in the end.
FairSend ==
    SpecSend /\ \A s \in Sessions : WF_vars(SendSettles(s) \/ SendRejects(s))

\* The call whose send the step rejected.
Rejected(s) ==
    /\ call' = "sendRejected"
    /\ session.pc[s] \in {"sending", "delivered"}
    /\ session'.pc[s] = "armed"

\* C37: the step in which a hands.send rejects fires nothing, clears the
\* call's busy flag and arms its next animation frame, so that the next tick
\* sends again whenever a Hands instance is registered and the video is
\* ready; and with every send settling, a busy flag that is set is cleared
\* later.
C37_SendFailureRecovers ==
    /\ [][call' = "sendRejected" =>
              /\ \E s \in Sessions : Rejected(s)
              /\ \A s \in Sessions :
                     Rejected(s) =>
                         /\ ~session'.isProcessing[s]
                         /\ session'.animationFrameRef = s
                         /\ canSend(session', s) <=>
                                (session.handsRef # 0 /\ session.videoReady)
              /\ fired' = <<>>
              /\ UNCHANGED <<hookVars, dc, strokes>>]_vars
    /\ \A s \in Sessions : session.isProcessing[s] ~> ~session.isProcessing[s]

\* A send was rejected before it delivered anything: the busy flag is clear
\* and the next animation frame is armed, with the Hands instance in place.
C37_Witness ==
    /\ call = "sendRejected"
    /\ session.pc[1] = "armed"
    /\ ~session.isProcessing[1]
    /\ session.animationFrameRef = 1
    /\ session.handsRef = 1
    /\ session.videoReady
    /\ nOps = 0

\* The startTracking calls whose animation-frame callback is pending.
Pending == {s \in Sessions : session.pc[s] = "armed"}

\* C38: from the return of stopTracking until startTracking is called again,
\* no step arms an animation-frame callback.
C38_Original ==
    [][session.stopped => Pending' \subseteq Pending]_vars

\* C39: from the return of stopTracking until startTracking is called again,
\* no event is fired and the recorder and the App's strokes do not change.
C39_Original ==
    [][session.stopped =>
          /\ fired' = <<>>
          /\ UNCHANGED <<dc, strokes>>]_vars

(***************************************************************************)
(* processResults with its early returns (lines 89-112): the overlay       *)
(* canvas may be unmounted, may have no 2d context, or may have a zero     *)
(* width or height.  The video, once it has a size, is CanvasW x CanvasH.  *)
(***************************************************************************)

\* The guard taken without the test of the canvas's width and height.
processResultsGuardNoSizeCheck(cv, videoSized) ==
    IF ~cv.mounted
    THEN [outcome |-> "noCanvas", canvas |-> cv]
    ELSE LET got == [cv EXCEPT !.ctxRef = cv.ctxRef \/ cv.contextAvailable]
         IN  IF ~got.ctxRef
             THEN [outcome |-> "noContext", canvas |-> got]
             ELSE [outcome |-> "process", canvas |-> got]

\* Lines 89-112: the outcome of the early returns and the canvas after them.
\* ctxRef caches the 2d context; a zero-size canvas takes the video's size
\* when the video has one, drops the cached context, and the frame returns.
processResultsGuard(cv, videoSized) ==
    IF ~cv.mounted
    THEN [outcome |-> "noCanvas", canvas |-> cv]
    ELSE LET got == [cv EXCEPT !.ctxRef = cv.ctxRef \/ cv.contextAvailable]
         IN  IF ~got.ctxRef
             THEN [outcome |-> "noContext", canvas |-> got]
             ELSE IF got.width = 0 \/ got.height = 0
             THEN [outcome |-> "zeroSize",
                   canvas |-> IF videoSized
                              THEN [got EXCEPT !.width = CanvasW, !.height = CanvasH,
                                               !.ctxRef = FALSE]
                              ELSE got]
             ELSE [outcome |-> "process", canvas |-> got]

\* hands.onResults(processResults) with the overlay canvas as it is: an early
\* return leaves the hook, the recorder and the App as they were.
OnResults(res) ==
    LET guard == processResultsGuard(session.canvas, session.videoSized)
    IN  /\ session' = [session EXCEPT !.canvas = guard.canvas]
        /\ IF guard.outcome = "process"
           THEN ProcessResults(res)
           ELSE /\ results' = res
                /\ fired' = <<>>
                /\ call' = "processResults"
                /\ nOps' = nOps + 1
                /\ UNCHANGED <<hookVars, dc, strokes, histVars, scene>>

\* The container's sizes: collapsed, and the size the overlay starts with.
OverlaySizes ==
    {[width |-> 0, height |-> 0], [width |-> CanvasW, height |-> CanvasH]}

OnResultsCall == \E res \in SessFrames : nOps < MaxFrames /\ OnResults(res)

OverlayResized == \E size \in OverlaySizes : nOps < MaxFrames /\ UpdateSize(size)

\* Changes around the hook that are not calls of it.
Around(name, s) ==
    /\ session' = s
    /\ call' = name
    /\ UNCHANGED <<hookVars, dc, strokes, results, fired, histVars, nOps, scene>>

\* The App unmounts (canvasRef.current becomes null) or mounts the overlay.
OverlayMounted ==
    \E b \in BOOLEAN :
        /\ session.canvas.mounted # b
        /\ Around("overlayMounted",
                  [session EXCEPT !.canvas.mounted = b, !.canvas.ctxRef = FALSE])

\* The video gets its size with the stream's metadata, and loses it with the
\* stream.
VideoSized ==
    \E b \in BOOLEAN :
        /\ session.videoSized # b
        /\ Around("videoSized", [session EXCEPT !.videoSized = b])

\* getContext("2d") starts to return null (the context is lost to the page).
ContextLost ==
    /\ session.canvas.contextAvailable
    /\ Around("contextLost", [session EXCEPT !.canvas.contextAvailable = FALSE])

NextCanvas ==
    OnResultsCall \/ OverlayResized \/ OverlayMounted \/ VideoSized \/ ContextLost

SpecCanvas == Init /\ [][NextCanvas]_vars

\* The frame finds the overlay canvas missing or with a zero width or height.
CanvasMissingOrEmpty ==
    \/ ~session.canvas.mounted
    \/ session.canvas.width = 0
    \/ session.canvas.height = 0

\* The frame passes the early returns.
CanvasUsable ==
    /\ session.canvas.mounted
    /\ session.canvas.ctxRef \/ session.canvas.contextAvailable
    /\ session.canvas.width # 0 /\ session.canvas.height # 0

\* C35: a frame delivered while the overlay canvas is missing or has a zero
\* width or height fires no event and leaves the stored drawing flag, the
\* stabilizer, the recorder and the App's strokes as they were; a frame that
\* passes the early returns with the stored flag true and a signal that is
\* not drawing fires onDrawingEnd exactly once and clears the flag.
C35_DroppedFrame ==
    [][call' = "processResults" =>
          /\ CanvasMissingOrEmpty =>
                 /\ fired' = <<>>
                 /\ UNCHANGED <<hookVars, dc, strokes>>
          /\ (CanvasUsable /\ prevDrawingState /\ results' \notin PointingFrames) =>
                 /\ FiredCount("onDrawingEnd")' = 1
                 /\ ~prevDrawingState']_vars

\* A stroke is active, the overlay collapses, and the hand-lost frame that
\* follows is dropped: the flag is still true, and the canvas has taken the
\* video's size.
C35_Witness ==
    /\ call = "processResults"
    /\ results = NoHand
    /\ fired = <<>>
    /\ prevDrawingState
    /\ Len(dc.currentStrokeRef) = 1
    /\ session.canvas.width = CanvasW
    /\ ~session.canvas.ctxRef
    /\ nOps = 3

\* The stroke kept by a dropped hand-lost frame is ended by the next frame
\* that is processed without a drawing signal.
C35_EndedLater ==
    /\ call = "processResults"
    /\ results = NoHand
    /\ FiredCount("onDrawingEnd") = 1
    /\ ~prevDrawingState
    /\ session.canvas.ctxRef
    /\ scene.canvasSize = [width |-> 0, height |-> 0]
    /\ nOps = 4

(***************************************************************************)
(* Claims about the pipeline (Spec).                                       *)
(***************************************************************************)

\* C3: on every processed frame onDrawingEnd fires exactly once if the stored
\* flag was true and the frame's signal is false (another pose, or no hand)
\* and does not fire otherwise; after the frame the stored flag is the
\* frame's signal.
C3_EndOnFallingEdge ==
    [][call' = "processResults" =>
          LET sig == results' \in PointingFrames
          IN  /\ FiredCount("onDrawingEnd")' = (IF prevDrawingState /\ ~sig THEN 1 ELSE 0)
              /\ prevDrawingState' = sig]_vars

\* A second stroke ended by hand loss: the flag is false again and exactly
\* one onDrawingEnd was fired by that frame.
C3_Witness ==
    /\ call = "processResults"
    /\ results = NoHand
    /\ FiredCount("onDrawingEnd") = 1
    /\ ~prevDrawingState
    /\ ends = 2

\* C4: whenever a frame fires onDrawingEnd, at least one onDrawingPoint has
\* been fired since the previous onDrawingEnd (or since the start).
C4_EndHasStart ==
    [][call' = "processResults" /\ FiredCount("onDrawingEnd")' >= 1 => runPoints >= 1]_vars

\* A run of two onDrawingPoint calls ended by an open hand.
C4_Witness ==
    /\ call = "processResults"
    /\ results \in OpenHandFrames
    /\ FiredCount("onDrawingEnd") = 1
    /\ ends = 1
    /\ nOps = 3
    /\ Len(strokes) = 1

\* C5 as stated: in every Drawing run the number of onDrawingPoint calls equals
\* the number of points the recorder accepted.
C5_Original == runAccepted = runPoints

\* C5 as amended: onDrawingPoint fires exactly once on every processed Drawing
\* frame and on no other frame, whether or not addPoint accepts the point; the
\* points accepted in a run are at least one (the first) and at most the
\* onDrawingPoint calls of the run.
C5_PointPerDrawingFrame ==
    [][call' = "processResults" =>
          /\ FiredCount("onDrawingPoint")' = (IF results' \in PointingFrames THEN 1 ELSE 0)
          /\ runAccepted' <= runPoints'
          /\ runPoints' >= 1 => runAccepted' >= 1]_vars

\* Three Drawing frames of one run of which the recorder kept two.
C5_Witness ==
    /\ call = "processResults"
    /\ prevDrawingState
    /\ runPoints = 3
    /\ runAccepted = 2
    /\ Len(dc.currentStrokeRef) = 2

\* The raw fingertip of a hand frame: landmark 8 times the canvas size.
RawTip(res) ==
    [x |-> (res.multiHandLandmarks[1][8].x * CanvasW * Scale) \div LmDen,
     y |-> (res.multiHandLandmarks[1][8].y * CanvasH * Scale) \div LmDen]

\* C6 as stated: the first point delivered for a stroke that follows another
\* stroke is that frame's raw fingertip.
C6_Original ==
    [][(/\ call' = "processResults"
        /\ ends >= 1
        /\ ~prevDrawingState
        /\ FiredCount("onDrawingPoint")' = 1)
          => fired'[1].point = RawTip(results')]_vars

\* C6 as amended: the first point delivered for a stroke that follows another
\* stroke is that frame's raw fingertip when no hand-present frame was
\* processed since the frame that fired the previous onDrawingEnd.
C6_FirstPointRawAfterEnd ==
    [][(/\ call' = "processResults"
        /\ ends >= 1
        /\ ~prevDrawingState
        /\ FiredCount("onDrawingPoint")' = 1
        /\ handSinceEnd = 0)
          => fired'[1].point = RawTip(results')]_vars

\* A stroke of two points at (0,10) .. ended by hand loss, then the first
\* frame of the next run at (3,12): its point is the raw fingertip.
C6_Witness ==
    /\ call = "processResults"
    /\ ends = 1
    /\ Len(strokes) = 1
    /\ strokes[1][1] = Pt(0, 10)
    /\ runPoints = 1
    /\ handSinceEnd = 1
    /\ results \in PointingFrames
    /\ fired[1].point = Pt(3, 12)
    /\ fired[1].point = RawTip(results)

\* Squared distance of two points, in squared fixed-point units.
Dist2(p, q) == (q.x - p.x) * (q.x - p.x) + (q.y - p.y) * (q.y - p.y)

\* The points of a run, each 2 px or more from the one before it.
WellSeparated(trace) ==
    \A i \in 1..(Len(trace) - 1) : Dist2(trace[i], trace[i + 1]) >= 4 * Scale * Scale

\* C17: every index-only frame fires exactly one onDrawingPoint, with the
\* stabilized point (the raw fingertip when the stabilizer is fresh); when a
\* run of k >= 2 such frames whose stabilized points are each 2 px or more
\* from the previous one, with no clear action in between, is followed by a
\* no-hand frame, the run made exactly
\* k onDrawingPoint calls, the no-hand frame fires exactly one onDrawingEnd
\* and nothing else, and exactly one stroke is added to the completed strokes:
\* the k stabilized points in order, from the first to the last.
C17_EndToEnd ==
    [][call' = "processResults" =>
          /\ results' \in PointingFrames =>
                /\ fired' = <<Event("onDrawingPoint", lastPoint')>>
                /\ lastPoint = Null => lastPoint' = RawTip(results')
                /\ runPoints' = (IF prevDrawingState THEN runPoints + 1 ELSE 1)
          /\ (/\ results' = NoHand
              /\ prevDrawingState
              /\ runClears = 0
              /\ Len(runTrace) >= 2
              /\ WellSeparated(runTrace)) =>
                /\ runPoints = Len(runTrace)
                /\ fired' = <<Event("onDrawingEnd", Null)>>
                /\ Len(strokes') = Len(strokes) + 1
                /\ strokes'[Len(strokes')] = runTrace
                /\ strokes'[Len(strokes')][1] = runTrace[1]
                /\ strokes'[Len(strokes')][Len(runTrace)] = lastPoint
                /\ getStrokes(dc') = <<>>]_vars

\* From the start: index-only frames at (0,10), (3,12), (0,10), whose
\* stabilized points are 2 px or more apart, then no hand: one completed
\* stroke of 3 points that starts at the raw (0,10).
C17_Witness ==
    /\ call = "processResults"
    /\ results = NoHand
    /\ nOps = 4
    /\ fired = <<Event("onDrawingEnd", Null)>>
    /\ Len(strokes) = 1
    /\ Len(strokes[1]) = 3
    /\ strokes[1][1] = Pt(0, 10)
    /\ 25 * strokes[1][3].x = 12 * Scale
    /\ lastPoint = Null

\* C20: a frame that ends a stroke in progress, with no hand or with a hand
\* in another pose, leaves what every other such frame would have left from
\* the same state: exactly one onDrawingEnd fired, the same recorder and the
\* same completed strokes (the stroke committed, or dropped, alike), the
\* stabilizer unseeded and the stored drawing flag false.
C20_SameTerminationPath ==
    [][(call' = "processResults" /\ prevDrawingState /\ results' \notin PointingFrames) =>
          /\ fired' = <<Event("onDrawingEnd", Null)>>
          /\ lastPoint' = Null
          /\ ~prevDrawingState'
          /\ \A other \in {NoHand} \cup OpenHandFrames :
                LET o == processResults(Cur, other)
                IN  /\ o.fired = fired'
                    /\ o.lastPoint = lastPoint'
                    /\ o.prevDrawingState = prevDrawingState'
                    /\ o.dc = dc'
                    /\ o.strokes = strokes']_vars

\* The fourth frame, an open hand, ended a stroke in progress: a stroke of
\* two points is committed, the recorder is empty, the stabilizer unseeded.
C20_Witness ==
    /\ call = "processResults"
    /\ results \in OpenHandFrames
    /\ nOps = 4
    /\ fired = <<Event("onDrawingEnd", Null)>>
    /\ dc = EmptyCanvas
    /\ Len(strokes) = 1
    /\ Len(strokes[1]) = 2
    /\ lastPoint = Null
    /\ ~prevDrawingState

\* C21: a no-hand frame processed while the stored drawing flag is false
\* fires no onDrawingPoint and no onDrawingEnd and leaves the stored flag,
\* the stabilizer, the recorder (in-progress and completed strokes) and the
\* App's strokes as they were.
C21_IdleNoHandNoOp ==
    [][(call' = "processResults" /\ results' = NoHand /\ ~prevDrawingState) =>
          /\ fired' = <<>>
          /\ prevDrawingState' = prevDrawingState
          /\ lastPoint' = lastPoint
          /\ dc' = dc
          /\ strokes' = strokes]_vars

\* An open hand seeded the stabilizer, then a no-hand frame: nothing fired,
\* the stabilizer still seeded, the flag still false.
C21_Witness ==
    /\ call = "processResults"
    /\ results = NoHand
    /\ nOps = 2
    /\ fired = <<>>
    /\ lastPoint = Pt(3, 12)
    /\ ~prevDrawingState
    /\ ~state.handDetected

\* The step fires onDrawingEnd.
EndsRun == \E i \in 1..Len(fired') : fired'[i].ev = "onDrawingEnd"

\* C29 as stated: an onDrawingEnd whose run accepted 2 or more points appends
\* one stroke of that many points, and one whose run accepted fewer appends
\* nothing.
C29_Original ==
    [][(call' = "processResults" /\ EndsRun) =>
          IF runAccepted >= 2
          THEN /\ Len(strokes') = Len(strokes) + 1
               /\ Len(strokes'[Len(strokes')]) = runAccepted
          ELSE strokes' = strokes]_vars

\* C29: a frame that fires onDrawingEnd appends to the App's strokes exactly
\* the in-progress stroke, as one stroke, when it has 2 or more points, and
\* nothing when it has fewer; the in-progress stroke holds the points the run
\* accepted since the last clear action (all of the run's when no clear action
\* fell inside the run); after the frame the recorder's completed strokes and
\* its in-progress stroke are empty; a frame that fires no onDrawingEnd
\* leaves the App's strokes as they were.
C29_HandedOnce ==
    [][call' = "processResults" =>
          IF EndsRun
          THEN /\ strokes' = IF Len(dc.currentStrokeRef) >= 2
                             THEN Append(strokes, dc.currentStrokeRef)
                             ELSE strokes
               /\ Len(dc.currentStrokeRef) <= runAccepted
               /\ runClears = 0 => Len(dc.currentStrokeRef) = runAccepted
               /\ getStrokes(dc) = <<>>
               /\ getStrokes(dc') = <<>>
               /\ dc'.currentStrokeRef = <<>>
          ELSE strokes' = strokes]_vars

\* Four operations, the last a no-hand frame that fired onDrawingEnd: the App
\* holds one stroke of 2 points and the recorder is empty.
C29_Witness ==
    /\ call = "processResults"
    /\ results = NoHand
    /\ nOps = 4
    /\ fired = <<Event("onDrawingEnd", Null)>>
    /\ Len(strokes) = 1 /\ Len(strokes[1]) = 2
    /\ dc = EmptyCanvas

\* The step is a frame that starts a Drawing run and delivers its first point.
StartsRun ==
    /\ call' = "processResults"
    /\ ~prevDrawingState
    /\ \E i \in 1..Len(fired') : fired'[i].ev = "onDrawingPoint"

C7_ResetOnEnd ==
    [][call' = "processResults" =>
          /\ (prevDrawingState /\ results' \notin PointingFrames) =>
                 FiredCount("onDrawingEnd")' = 1 /\ lastPoint' = Null
          /\ FiredCount("onDrawingEnd")' >= 1 => lastPoint' = Null]_vars

\* A stroke ended by an open hand: the frame's fingertip went through
\* smooth(), and the smoother is unseeded after the frame.
C7_Witness ==
    /\ call = "processResults"
    /\ results \in OpenHandFrames
    /\ FiredCount("onDrawingEnd") = 1
    /\ state.handDetected /\ ~state.isDrawing
    /\ state.indexFingerTip # Null
    /\ lastPoint = Null

====
